---- MODULE Spec2Model ----
(***************************************************************************)
(* Model of the vector-index service of Fashion-Sense-AI                   *)
(* (src/Services/faiss_service.py, class FAISSService): the in-memory      *)
(* IndexFlatL2 index, the parallel product_ids list, the id_to_idx dict,   *)
(* and the two files the service persists itself to.                       *)
(*                                                                         *)
(* Representation.                                                         *)
(*  - A vector is a record [n, head]: a float32 array of length n whose    *)
(*    first four components are head[1..4] and whose other components are  *)
(*    all zero.  Components are counted in tenths (10 stands for 1.0,      *)
(*    9 for 0.9), so squared L2 distances are counted in hundredths        *)
(*    (2 stands for 0.02).  float32 rounding is not modelled.              *)
(*  - The FAISS index is a record [exists, d, xb]: exists = FALSE is       *)
(*    Python's None, d the dimension, xb the stored rows in order          *)
(*    (ntotal = Len(xb)); positions are 0-based as in the code.            *)
(*  - Every method is an operator from the service's fields (and its       *)
(*    arguments) to an outcome record: the fields after the call, the      *)
(*    exception raised (exc, "none" when the call returns), the message    *)
(*    printed or raised (why) and the returned value (ret).                *)
(*  - The embedding jobs (src/generate_embeddings.py and the two           *)
(*    /api/embeddings handlers of src/flask_app.py) are the record job,    *)
(*    advanced one product or one save at a time; two request handlers     *)
(*    running at once are the record req, advanced one statement at a      *)
(*    time.                                                                *)
(***************************************************************************)
EXTENDS Integers, Sequences, FiniteSets, TLC

VARIABLES svc, disk, last, first, added, scen, ref, job, req, web, ui

vars == <<svc, disk, last, first, added, scen, ref, job, req, web, ui>>

(***************************************************************************)
(* Bounds of the model and the input pools.                                *)
(***************************************************************************)
MaxVectors == 3
MaxBatch == 2
MaxTopK == 4
MaxPersisted == 2
MaxStored == 4

\* self.dimension = 896
dimension == 896

ProductIds == {"A", "B"}
ScenarioIds == {"A", "B", "C"}

Vec(n, h) == [n |-> n, head |-> h]
NoVec == Vec(0, <<>>)

HeadA == <<10, 0, 0, 0>>
HeadB == <<0, 10, 0, 0>>
HeadC == <<9, 1, 0, 0>>

\* vectors of the index dimension: the heads above followed by 892 zeros
VecA == Vec(dimension, HeadA)
VecB == Vec(dimension, HeadB)
VecC == Vec(dimension, HeadC)
\* the same values as plain 4-component arrays
ShortA == Vec(4, HeadA)
ShortB == Vec(4, HeadB)
ShortC == Vec(4, HeadC)

GoodVectors == {VecA, VecC}
Vectors == GoodVectors \cup {ShortA}
Queries == {VecA, ShortA}
TopKs == 1..MaxTopK

\* distance_threshold: None, or a distance in hundredths
NoThreshold == [given |-> FALSE, max |-> 0]
Threshold(t) == [given |-> TRUE, max |-> t]
Thresholds == {NoThreshold, Threshold(0), Threshold(2)}

(***************************************************************************)
(* Python and numpy helpers.                                               *)
(***************************************************************************)
EmptyMap == [x \in {} |-> 0]

\* d[k] = v on a dict
DictSet(d, k, v) == [x \in (DOMAIN d) \cup {k} |-> IF x = k THEN v ELSE d[x]]

Min(a, b) == IF a <= b THEN a ELSE b

RECURSIVE SumSq(_, _, _)
SumSq(u, v, i) ==
  IF i = 0 THEN 0
  ELSE (u[i] - v[i]) * (u[i] - v[i]) + SumSq(u, v, i - 1)

\* a variant of L2Sqr: the inner product (an IndexFlatIP index)
RECURSIVE Dot(_, _, _)
Dot(u, v, i) == IF i = 0 THEN 0 ELSE u[i] * v[i] + Dot(u, v, i - 1)

InnerProduct(u, v) == Dot(u.head, v.head, Len(u.head))

\* squared Euclidean distance of two arrays of the same length
\* (the components after the head are zero in both)
L2Sqr(u, v) == SumSq(u.head, v.head, Len(u.head))

\* np.array(embeddings, dtype=np.float32) of a list of arrays succeeds when
\* the arrays have one length, and raises ValueError otherwise
Uniform(vecs) == \A i, j \in DOMAIN vecs : vecs[i].n = vecs[j].n

(***************************************************************************)
(* The FAISS IndexFlatL2 object.                                           *)
(***************************************************************************)
NoIndex == [exists |-> FALSE, d |-> 0, xb |-> <<>>]
IndexFlatL2(d) == [exists |-> TRUE, d |-> d, xb |-> <<>>]
ntotal(index) == Len(index.xb)
IndexAdd(index, rows) == [index EXCEPT !.xb = @ \o rows]
Reconstruct(index, idx) == index.xb[idx + 1]

\* every ranking of k of the positions in `rest`, nearest first, dist[i + 1]
\* being the distance of the row at position i; rows at the same distance may
\* come in any order (the library fixes none)
RECURSIVE Rankings(_, _, _)
Rankings(dist, rest, k) ==
  IF k = 0 \/ rest = {} THEN {<<>>}
  ELSE UNION {{<<i>> \o r : r \in Rankings(dist, rest \ {i}, k - 1)}
              : i \in {i \in rest : \A j \in rest : dist[i + 1] <= dist[j + 1]}}

\* the rankings with their distances
Ranked(dist, k) ==
  {[indices |-> I, distances |-> [i \in DOMAIN I |-> dist[I[i] + 1]]]
   : I \in Rankings(dist, 0..(Len(dist) - 1), k)}

\* index.search(query, k): the set of (distances, indices) it may return
IndexSearch(index, q, k) ==
  Ranked([i \in DOMAIN index.xb |-> L2Sqr(q, index.xb[i])], k)

(***************************************************************************)
(* FAISSService: fields and outcomes.                                      *)
(***************************************************************************)
NoResult == [product_ids |-> <<>>, distances |-> <<>>]

Returns(s, why, ret) == [svc |-> s, exc |-> "none", why |-> why, ret |-> ret]
Raises(s, exc, why) == [svc |-> s, exc |-> exc, why |-> why, ret |-> NoResult]

\* FAISSService.__init__
NewService ==
  [dimension |-> dimension, index |-> NoIndex, product_ids |-> <<>>,
   id_to_idx |-> EmptyMap, ready |-> FALSE]

\* FAISSService.create_new_index
create_new_index(s) ==
  [s EXCEPT !.index = IndexFlatL2(s.dimension),
            !.product_ids = <<>>,
            !.id_to_idx = EmptyMap]

\* FAISSService.get_total_embeddings
get_total_embeddings(s) == IF s.index.exists THEN ntotal(s.index) ELSE 0

\* a variant of add_embedding: the duplicate test comes before the dimension test
add_embedding_duplicate_test_first(s, product_id, embedding) ==
  IF ~s.ready THEN Raises(s, "RuntimeError", "not_initialized")
  ELSE IF product_id \in DOMAIN s.id_to_idx
       THEN Returns(s, "duplicate_skipped", NoResult)
  ELSE IF embedding.n # s.dimension THEN Raises(s, "ValueError", "dimension")
  ELSE Returns([s EXCEPT !.index = IndexAdd(@, <<embedding>>),
                         !.product_ids = Append(@, product_id),
                         !.id_to_idx = DictSet(@, product_id, Len(s.product_ids))],
               "added", NoResult)

\* a variant of add_embedding: an existing product's row is overwritten
add_embedding_overwrites(s, product_id, embedding) ==
  IF ~s.ready THEN Raises(s, "RuntimeError", "not_initialized")
  ELSE IF embedding.n # s.dimension THEN Raises(s, "ValueError", "dimension")
  ELSE IF product_id \in DOMAIN s.id_to_idx
       THEN Returns([s EXCEPT !.index.xb[s.id_to_idx[product_id] + 1] = embedding],
                    "updated", NoResult)
  ELSE Returns([s EXCEPT !.index = IndexAdd(@, <<embedding>>),
                         !.product_ids = Append(@, product_id),
                         !.id_to_idx = DictSet(@, product_id, Len(s.product_ids))],
               "added", NoResult)

\* FAISSService.add_embedding
add_embedding(s, product_id, embedding) ==
  IF ~s.ready THEN Raises(s, "RuntimeError", "not_initialized")
  ELSE IF embedding.n # s.dimension THEN Raises(s, "ValueError", "dimension")
  ELSE IF product_id \in DOMAIN s.id_to_idx
       THEN Returns(s, "duplicate_skipped", NoResult)
  ELSE Returns([s EXCEPT !.index = IndexAdd(@, <<embedding>>),
                         !.product_ids = Append(@, product_id),
                         !.id_to_idx = DictSet(@, product_id, Len(s.product_ids))],
               "added", NoResult)

\* the filter loop of add_embeddings_batch: the positions of the items kept.
\* self.id_to_idx is not written during the loop.
NewPositions(s, product_ids) ==
  {i \in DOMAIN product_ids : product_ids[i] \notin DOMAIN s.id_to_idx}

\* the sub-list of xs at the positions P, in order, from position i on
RECURSIVE PickFrom(_, _, _)
PickFrom(xs, P, i) ==
  IF i > Len(xs) THEN <<>>
  ELSE (IF i \in P THEN <<xs[i]>> ELSE <<>>) \o PickFrom(xs, P, i + 1)

Pick(xs, P) == PickFrom(xs, P, 1)

\* the mapping loop of add_embeddings_batch: product_ids.append(pid) and
\* id_to_idx[pid] = start_idx + i, for new_ids[from..]
RECURSIVE RecordNew(_, _, _, _)
RecordNew(s, new_ids, start_idx, from) ==
  IF from > Len(new_ids) THEN s
  ELSE RecordNew([s EXCEPT !.product_ids = Append(@, new_ids[from]),
                           !.id_to_idx = DictSet(@, new_ids[from], start_idx + from - 1)],
                 new_ids, start_idx, from + 1)

\* a variant of add_embeddings_batch: the lengths are not compared, and zip
\* stops at the shorter of the two lists
add_embeddings_batch_zip_truncates(s, product_ids, embeddings) ==
  IF ~s.ready THEN Raises(s, "RuntimeError", "not_initialized")
  ELSE IF ~Uniform(embeddings) THEN Raises(s, "ValueError", "inhomogeneous")
  ELSE IF embeddings = <<>> THEN Raises(s, "IndexError", "shape")
  ELSE IF embeddings[1].n # s.dimension THEN Raises(s, "ValueError", "dimension")
  ELSE LET m == Min(Len(product_ids), Len(embeddings))
           keep == {i \in 1..m : product_ids[i] \notin DOMAIN s.id_to_idx}
           new_ids == Pick(product_ids, keep)
           new_embeddings == Pick(embeddings, keep)
       IN IF new_ids = <<>> THEN Returns(s, "all_exist", NoResult)
          ELSE Returns(RecordNew([s EXCEPT !.index = IndexAdd(@, new_embeddings)],
                                 new_ids, Len(s.product_ids), 1),
                       "added", NoResult)

\* FAISSService.add_embeddings_batch
add_embeddings_batch(s, product_ids, embeddings) ==
  IF ~s.ready THEN Raises(s, "RuntimeError", "not_initialized")
  ELSE IF ~Uniform(embeddings) THEN Raises(s, "ValueError", "inhomogeneous")
  ELSE IF embeddings = <<>> THEN Raises(s, "IndexError", "shape")
  ELSE IF embeddings[1].n # s.dimension THEN Raises(s, "ValueError", "dimension")
  ELSE IF Len(product_ids) # Len(embeddings) THEN Raises(s, "ValueError", "arity")
  ELSE LET keep == NewPositions(s, product_ids)
           new_ids == Pick(product_ids, keep)
           new_embeddings == Pick(embeddings, keep)
       IN IF new_ids = <<>> THEN Returns(s, "all_exist", NoResult)
          ELSE Returns(RecordNew([s EXCEPT !.index = IndexAdd(@, new_embeddings)],
                                 new_ids, Len(s.product_ids), 1),
                       "added", NoResult)

\* a variant of search: top_k is not clamped; the library fills the missing
\* places with label -1 and the largest distance, and product_ids[-1] is the
\* last product id
search_unclamped(s, query_embedding, top_k) ==
  IF ~s.ready THEN {Raises(s, "RuntimeError", "not_initialized")}
  ELSE IF ntotal(s.index) = 0 THEN {Returns(s, "empty", NoResult)}
  ELSE IF query_embedding.n # s.dimension THEN {Raises(s, "ValueError", "dimension")}
  ELSE {Returns(s, "found",
                [product_ids |-> [i \in 1..top_k |->
                                    IF i <= Len(r.indices)
                                    THEN s.product_ids[r.indices[i] + 1]
                                    ELSE s.product_ids[Len(s.product_ids)]],
                 distances |-> [i \in 1..top_k |->
                                    IF i <= Len(r.indices) THEN r.distances[i]
                                    ELSE 1000000]])
        : r \in IndexSearch(s.index, query_embedding, top_k)}

\* a variant of search: the product ids come out in the reverse order of
\* the distances
search_reversed_ids(s, query_embedding, top_k) ==
  IF ~s.ready THEN {Raises(s, "RuntimeError", "not_initialized")}
  ELSE IF ntotal(s.index) = 0 THEN {Returns(s, "empty", NoResult)}
  ELSE IF query_embedding.n # s.dimension THEN {Raises(s, "ValueError", "dimension")}
  ELSE LET k == Min(top_k, ntotal(s.index))
       IN {Returns(s, "found",
                   [product_ids |-> [i \in DOMAIN r.indices |->
                                       s.product_ids[r.indices[Len(r.indices) + 1 - i] + 1]],
                    distances |-> r.distances])
           : r \in IndexSearch(s.index, query_embedding, k)}

\* FAISSService.search: the set of outcomes the call may have
search(s, query_embedding, top_k) ==
  IF ~s.ready THEN {Raises(s, "RuntimeError", "not_initialized")}
  ELSE IF ntotal(s.index) = 0 THEN {Returns(s, "empty", NoResult)}
  ELSE IF query_embedding.n # s.dimension THEN {Raises(s, "ValueError", "dimension")}
  ELSE LET k == Min(top_k, ntotal(s.index))
       IN {IF \E i \in DOMAIN r.indices : r.indices[i] >= Len(s.product_ids)
           THEN Raises(s, "IndexError", "product_ids")
           ELSE Returns(s, "found",
                        [product_ids |-> [i \in DOMAIN r.indices |->
                                            s.product_ids[r.indices[i] + 1]],
                         distances |-> r.distances])
           : r \in IndexSearch(s.index, query_embedding, k)}

\* the filter loop of search_with_threshold over zip(product_ids, distances)
WithinThreshold(results, distance_threshold) ==
  LET keep == {i \in DOMAIN results.distances :
                 results.distances[i] <= distance_threshold.max}
  IN [product_ids |-> Pick(results.product_ids, keep),
      distances |-> Pick(results.distances, keep)]

\* a variant of search_with_threshold: the test is dist < distance_threshold
search_with_threshold_strict(s, query_embedding, top_k, distance_threshold) ==
  {IF o.exc = "none" /\ distance_threshold.given
   THEN [o EXCEPT !.ret =
           LET keep == {i \in DOMAIN o.ret.distances :
                          o.ret.distances[i] < distance_threshold.max}
           IN [product_ids |-> Pick(o.ret.product_ids, keep),
               distances |-> Pick(o.ret.distances, keep)]]
   ELSE o
   : o \in search(s, query_embedding, top_k)}

\* FAISSService.search_with_threshold: an exception of search propagates
search_with_threshold(s, query_embedding, top_k, distance_threshold) ==
  {IF o.exc = "none" /\ distance_threshold.given
   THEN [o EXCEPT !.ret = WithinThreshold(o.ret, distance_threshold)]
   ELSE o
   : o \in search(s, query_embedding, top_k)}

\* FAISSService.get_product_embedding (NoVec is None)
get_product_embedding(s, product_id) ==
  IF product_id \notin DOMAIN s.id_to_idx THEN NoVec
  ELSE Reconstruct(s.index, s.id_to_idx[product_id])

\* a variant of remove_product: the row of a remaining product is read at its
\* place in the new list instead of at id_to_idx[pid]
remove_product_reads_new_place(s, product_id) ==
  IF product_id \notin DOMAIN s.id_to_idx THEN Returns(s, "not_found", NoResult)
  ELSE LET keep == {i \in DOMAIN s.product_ids : s.product_ids[i] # product_id}
           new_product_ids == Pick(s.product_ids, keep)
           embeddings == [i \in DOMAIN new_product_ids |-> Reconstruct(s.index, i - 1)]
           fresh == create_new_index(s)
       IN IF embeddings = <<>> THEN Returns(fresh, "removed", NoResult)
          ELSE LET o == add_embeddings_batch(fresh, new_product_ids, embeddings)
               IN IF o.exc = "none" THEN Returns(o.svc, "removed", NoResult) ELSE o

\* FAISSService.remove_product
remove_product(s, product_id) ==
  IF product_id \notin DOMAIN s.id_to_idx THEN Returns(s, "not_found", NoResult)
  ELSE LET keep == {i \in DOMAIN s.product_ids : s.product_ids[i] # product_id}
           new_product_ids == Pick(s.product_ids, keep)
           embeddings == [i \in DOMAIN new_product_ids |->
                            Reconstruct(s.index, s.id_to_idx[new_product_ids[i]])]
           fresh == create_new_index(s)
       IN IF embeddings = <<>> THEN Returns(fresh, "removed", NoResult)
          ELSE LET o == add_embeddings_batch(fresh, new_product_ids, embeddings)
               IN IF o.exc = "none" THEN Returns(o.svc, "removed", NoResult) ELSE o

\* FAISSService.rebuild_index
rebuild_index(s, product_ids, embeddings) ==
  LET o == add_embeddings_batch(create_new_index(s), product_ids, embeddings)
  IN IF o.exc = "none" THEN Returns(o.svc, "rebuilt", NoResult) ELSE o

(***************************************************************************)
(* Persistence: the index blob and the mapping blob.                       *)
(***************************************************************************)
\* a file: torn is a file whose writing was cut short, which exists and
\* cannot be read back
NoFile == [exists |-> FALSE, torn |-> FALSE, d |-> 0, xb |-> <<>>,
           product_ids |-> <<>>, id_to_idx |-> EmptyMap]
TornFile == [NoFile EXCEPT !.exists = TRUE, !.torn = TRUE]
NoDisk == [index_file |-> NoFile, mapping_file |-> NoFile]

\* faiss.write_index: the blob holds the dimension and the rows
WriteIndex(index) == [NoFile EXCEPT !.exists = TRUE, !.d = index.d, !.xb = index.xb]
\* faiss.read_index
ReadIndex(file) == [exists |-> TRUE, d |-> file.d, xb |-> file.xb]
\* pickle.dump of {'product_ids': ..., 'id_to_idx': ...}
DumpMapping(s) == [NoFile EXCEPT !.exists = TRUE, !.product_ids = s.product_ids,
                                 !.id_to_idx = s.id_to_idx]

\* FAISSService.save_index: the outcome and the files after the call
save_index(s, dk) ==
  IF ~s.index.exists
  THEN [out |-> Raises(s, "Exception", "write_index"), disk |-> dk]
  ELSE [out |-> Returns(s, "saved", NoResult),
        disk |-> [index_file |-> WriteIndex(s.index),
                  mapping_file |-> DumpMapping(s)]]

\* save_index cut short by the end of the process: while faiss.write_index
\* writes, between the two writes, or while pickle.dump writes (open(.., 'wb')
\* has emptied the mapping file by then)
SaveStages == {"write_index", "between", "dump"}
save_index_cut_short(s, dk, stage) ==
  IF ~s.index.exists THEN dk
  ELSE IF stage = "write_index" THEN [dk EXCEPT !.index_file = TornFile]
  ELSE IF stage = "between" THEN [dk EXCEPT !.index_file = WriteIndex(s.index)]
  ELSE [index_file |-> WriteIndex(s.index), mapping_file |-> TornFile]

\* a variant of load_index: id_to_idx is not restored
load_index_without_id_to_idx(s, dk) ==
  IF dk.index_file.torn \/ dk.mapping_file.torn THEN create_new_index(s)
  ELSE [s EXCEPT !.index = ReadIndex(dk.index_file),
                 !.product_ids = dk.mapping_file.product_ids]

\* FAISSService.load_index: a file that cannot be read raises inside the
\* try, and the except branch creates a new index
load_index(s, dk) ==
  IF dk.index_file.torn \/ dk.mapping_file.torn THEN create_new_index(s)
  ELSE [s EXCEPT !.index = ReadIndex(dk.index_file),
                 !.product_ids = dk.mapping_file.product_ids,
                 !.id_to_idx = dk.mapping_file.id_to_idx]

\* initialize that sets _ready only where it made the index anew
initialize_ready_when_created_only(s, dk) ==
  IF dk.index_file.exists /\ dk.mapping_file.exists
  THEN Returns(load_index(s, dk),
               IF dk.index_file.torn \/ dk.mapping_file.torn
               THEN "load_error_created" ELSE "loaded",
               NoResult)
  ELSE Returns([create_new_index(s) EXCEPT !.ready = TRUE], "created", NoResult)

\* FAISSService.initialize: it returns in every case; why tells what it
\* printed
initialize(s, dk) ==
  IF dk.index_file.exists /\ dk.mapping_file.exists
  THEN Returns([load_index(s, dk) EXCEPT !.ready = TRUE],
               IF dk.index_file.torn \/ dk.mapping_file.torn
               THEN "load_error_created" ELSE "loaded",
               NoResult)
  ELSE Returns([create_new_index(s) EXCEPT !.ready = TRUE], "created", NoResult)

(***************************************************************************)
(* EmbeddingService (src/Services/embedding_service.py).                   *)
(* An array the service computes with is a record [n, head, sq]: length n, *)
(* the components head[i] / sqrt(sq), every component not listed zero.  A  *)
(* 512 or 384 block lists its first two components; the 896 array          *)
(* np.concatenate makes of two blocks lists four, the first two of each    *)
(* block.  sq is a square (1, 25, 100) until the final division by the     *)
(* norm, which is exact in this form: x / ||x|| is head / sqrt(sum of      *)
(* head[i]^2).  What CLIP and the sentence transformer return for an image *)
(* or a text is given by two tables of unit vectors.                       *)
(***************************************************************************)
Arr(n, head, sq) == [n |-> n, head |-> head, sq |-> sq]

\* np.zeros(n, dtype=np.float32)
zeros(n) == Arr(n, <<0, 0>>, 1)

AllZero(x) == \A i \in DOMAIN x.head : x.head[i] = 0

SumOfSquares(h) == SumSq(h, [i \in DOMAIN h |-> 0], Len(h))

\* the root of a square
Root(sq) == CHOOSE r \in 0..sq : r * r = sq

\* x and y are the same array
SameArray(x, y) ==
  /\ x.n = y.n
  /\ DOMAIN x.head = DOMAIN y.head
  /\ \A i \in DOMAIN x.head :
        /\ (x.head[i] >= 0) = (y.head[i] >= 0)
        /\ x.head[i] * x.head[i] * y.sq = y.head[i] * y.head[i] * x.sq

\* np.linalg.norm(x) ** 2, as the fraction num / den
NormSquared(x) == [num |-> SumOfSquares(x.head), den |-> x.sq]

\* x + y of two blocks of one length
Plus(x, y) ==
  Arr(x.n, [i \in DOMAIN x.head |-> x.head[i] * Root(y.sq) + y.head[i] * Root(x.sq)],
      x.sq * y.sq)

\* x / 2.0
Half(x) == [x EXCEPT !.sq = 4 * @]

\* np.concatenate([x, y])
concatenate(x, y) ==
  Arr(x.n + y.n,
      [i \in 1..(Len(x.head) + Len(y.head)) |->
         IF i <= Len(x.head) THEN x.head[i] * Root(y.sq)
         ELSE y.head[i - Len(x.head)] * Root(x.sq)],
      x.sq * y.sq)

\* the array returned as it was concatenated, never divided by its norm
normalize_never(x) == x

\* norm = np.linalg.norm(x); if norm > 0: x = x / norm
\* (lines 171-173, 194-196, 229-231)
normalize(x) ==
  IF SumOfSquares(x.head) > 0 THEN [x EXCEPT !.sq = SumOfSquares(x.head)] ELSE x

\* the images and the texts of the model; Blank are the texts for which
\* `not text or not text.strip()` holds, "" the one for which `not text` does
Images == {"a.jpg", "b.jpg", "c.jpg"}
Blank == {"", " "}
Texts == Blank \cup {"red", "blue"}

\* the normalized features of CLIP for an image and for a text, and the
\* normalized embedding of the sentence transformer for a text
ClipImageFeatures(image) ==
  IF image = "a.jpg" THEN Arr(512, <<1, 0>>, 1)
  ELSE IF image = "b.jpg" THEN Arr(512, <<3, 4>>, 25)
  ELSE Arr(512, <<0, 1>>, 1)
ClipTextFeatures(text) ==
  IF text = "red" THEN Arr(512, <<4, 3>>, 25) ELSE Arr(512, <<0, 1>>, 1)
SentenceEmbedding(text) ==
  IF text = "red" THEN Arr(384, <<1, 0>>, 1) ELSE Arr(384, <<3, 4>>, 25)

\* EmbeddingService.encode_image_clip on an initialized service and an
\* image that loads
encode_image_clip(image_source) == ClipImageFeatures(image_source)

\* EmbeddingService.encode_text_sbert
encode_text_sbert(text) ==
  IF text \in Blank THEN zeros(384) ELSE SentenceEmbedding(text)

\* EmbeddingService.encode_text_clip
encode_text_clip(text) ==
  IF text \in Blank THEN zeros(512) ELSE ClipTextFeatures(text)

\* EmbeddingService.encode_image
encode_image(image_source, include_text, text) ==
  LET clip_embedding == encode_image_clip(image_source)
      text_embedding == IF include_text /\ text # "" THEN encode_text_sbert(text)
                        ELSE zeros(384)
  IN normalize(concatenate(clip_embedding, text_embedding))

\* EmbeddingService.encode_text
encode_text(text) ==
  normalize(concatenate(encode_text_clip(text), encode_text_sbert(text)))

\* EmbeddingService.encode_multimodal
encode_multimodal(image_source, text) ==
  LET clip_image_emb == encode_image_clip(image_source)
      clip_text_emb == IF text # "" THEN encode_text_clip(text) ELSE zeros(512)
      clip_combined == Half(Plus(clip_image_emb, clip_text_emb))
      sbert_emb == IF text # "" THEN encode_text_sbert(text) ELSE zeros(384)
  IN normalize(concatenate(clip_combined, sbert_emb))

\* the array as the index takes it: the components in tenths, rounded down
Tenths(x) ==
  Vec(x.n, [i \in DOMAIN x.head |->
              CHOOSE t \in 0..10 :
                 /\ t * t * x.sq <= 100 * x.head[i] * x.head[i]
                 /\ (t + 1) * (t + 1) * x.sq > 100 * x.head[i] * x.head[i]])

(***************************************************************************)
(* The embedding jobs: generate_embeddings (src/generate_embeddings.py) and *)
(* the endpoints batch_update_embeddings and update_embeddings             *)
(* (src/flask_app.py).  A job is a record: kind, the products it was       *)
(* given, batch_size, i the place of the next product (from 1), pc the     *)
(* next step ("product", "batch_end", "final_save", "done"), status, and   *)
(* the counters successful (updated_count in the endpoints) and failed.    *)
(* skipped, unsaved and start are history: the products passed over as     *)
(* already embedded, the embeddings added since the last save, and the     *)
(* service the job started on.                                             *)
(***************************************************************************)
BatchSizes == {1, 2}

Product(pid, image) == [product_id |-> pid, feature_image_s3 |-> image]

\* data_service.get_all_products(): four products, one without image URL
all_products ==
  <<Product("A", "a.jpg"), Product("B", ""), Product("C", "c.jpg"),
    Product("D", "d.jpg")>>
ProductLists == {all_products}

\* the embedding the encoders give a product
EmbeddingOf(pid) ==
  CASE pid = "A" -> VecA
    [] pid = "B" -> VecB
    [] pid = "C" -> VecC
    [] OTHER -> VecB

\* what a call of the encoders may do: return the embedding, raise (the image
\* cannot be fetched or decoded), or return an array of another length (the
\* length is that of the checkpoints loaded, EmbeddingService.initialize)
EncoderOutcomes == {"ok", "error", "wrong_length"}

\* EmbeddingService.encode_product: an empty image source cannot be opened
encode_product(product, outcome) ==
  IF product.feature_image_s3 = "" \/ outcome = "error"
  THEN [exc |-> "Exception", embedding |-> NoVec]
  ELSE IF outcome = "wrong_length"
       THEN [exc |-> "none", embedding |-> Vec(4, EmbeddingOf(product.product_id).head)]
  ELSE [exc |-> "none", embedding |-> EmbeddingOf(product.product_id)]

NoJob ==
  [kind |-> "none", pc |-> "idle", status |-> "", batch_size |-> 0,
   products |-> <<>>, i |-> 0, successful |-> 0, failed |-> 0,
   skipped |-> 0, unsaved |-> 0, start |-> NewService]

\* the job before its first product
NewJob(kind, batch_size, products, s) ==
  [kind |-> kind, pc |-> "product", status |-> "running",
   batch_size |-> batch_size, products |-> products, i |-> 1,
   successful |-> 0, failed |-> 0, skipped |-> 0, unsaved |-> 0, start |-> s]

Running(j) == j.pc \in {"product", "batch_end", "final_save"}

\* the job after product i: the inner loop goes on, or the batch
\* products[k : k + batch_size] is finished; update_embeddings has one loop
AfterProduct(j) ==
  [j EXCEPT !.i = @ + 1,
            !.pc = IF j.kind = "update_embeddings"
                   THEN (IF j.i = Len(j.products) THEN "final_save" ELSE "product")
                   ELSE IF j.i % j.batch_size = 0 \/ j.i = Len(j.products)
                        THEN "batch_end" ELSE "product"]

Step(j, s, call) == [job |-> j, svc |-> s, call |-> call]

JobCall(op, pid, vec, exc, why) ==
  [op |-> op, pid |-> pid, vec |-> vec, k |-> 0, exc |-> exc, why |-> why,
   ret |-> NoResult]

\* a variant of generate_embeddings_product: no try/except around the product
generate_embeddings_product_uncaught(j, s, outcome) ==
  LET product == j.products[j.i]
      product_id == product.product_id
      next == AfterProduct(j)
      abort == [j EXCEPT !.pc = "done", !.status = "error"]
  IN IF product_id \in DOMAIN s.id_to_idx
     THEN Step([next EXCEPT !.skipped = @ + 1], s,
               JobCall("already_embedded", product_id, NoVec, "none", "skipped"))
     ELSE IF product.feature_image_s3 = ""
     THEN Step([next EXCEPT !.failed = @ + 1], s,
               JobCall("image_url", product_id, NoVec, "none", "no_image"))
     ELSE LET e == encode_product(product, outcome)
          IN IF e.exc # "none"
             THEN Step(abort, s, JobCall("encode_product", product_id, NoVec, e.exc, "encode"))
             ELSE LET o == add_embedding(s, product_id, e.embedding)
                  IN IF o.exc # "none"
                     THEN Step(abort, o.svc,
                               JobCall("add_embedding", product_id, e.embedding, o.exc, o.why))
                     ELSE Step([next EXCEPT !.successful = @ + 1,
                                            !.unsaved = @ + (IF o.why = "added" THEN 1 ELSE 0)],
                               o.svc,
                               JobCall("add_embedding", product_id, e.embedding, o.exc, o.why))

\* generate_embeddings, the body of `for product in batch` (lines 70-102)
generate_embeddings_product(j, s, outcome) ==
  LET product == j.products[j.i]
      product_id == product.product_id
      next == AfterProduct(j)
  IN IF product_id \in DOMAIN s.id_to_idx
     THEN Step([next EXCEPT !.skipped = @ + 1], s,
               JobCall("already_embedded", product_id, NoVec, "none", "skipped"))
     ELSE IF product.feature_image_s3 = ""
     THEN Step([next EXCEPT !.failed = @ + 1], s,
               JobCall("image_url", product_id, NoVec, "none", "no_image"))
     ELSE LET e == encode_product(product, outcome)
          IN IF e.exc # "none"
             THEN Step([next EXCEPT !.failed = @ + 1], s,
                       JobCall("encode_product", product_id, NoVec, e.exc, "encode"))
             ELSE LET o == add_embedding(s, product_id, e.embedding)
                  IN IF o.exc # "none"
                     THEN Step([next EXCEPT !.failed = @ + 1], o.svc,
                               JobCall("add_embedding", product_id, e.embedding, o.exc, o.why))
                     ELSE Step([next EXCEPT !.successful = @ + 1,
                                            !.unsaved = @ + (IF o.why = "added" THEN 1 ELSE 0)],
                               o.svc,
                               JobCall("add_embedding", product_id, e.embedding, o.exc, o.why))

\* batch_update_embeddings and update_embeddings, the body of the loop over
\* the products (flask_app.py lines 363-373 and 300-313)
update_embeddings_product(j, s, outcome) ==
  LET product == j.products[j.i]
      product_id == product.product_id
      next == AfterProduct(j)
      e == encode_product(product, outcome)
  IN IF e.exc # "none"
     THEN Step([next EXCEPT !.failed = @ + 1], s,
               JobCall("encode_product", product_id, NoVec, e.exc, "encode"))
     ELSE LET o == add_embedding(s, product_id, e.embedding)
          IN IF o.exc # "none"
             THEN Step([next EXCEPT !.failed = @ + 1], o.svc,
                       JobCall("add_embedding", product_id, e.embedding, o.exc, o.why))
             ELSE Step([next EXCEPT !.successful = @ + 1,
                                    !.unsaved = @ + (IF o.why = "added" THEN 1 ELSE 0)],
                       o.svc,
                       JobCall("add_embedding", product_id, e.embedding, o.exc, o.why))

\* the test before save_index() at the end of a batch:
\* `successful > 0 and successful % (batch_size * 5) == 0` in
\* generate_embeddings, `updated_count % batch_size == 0` in
\* batch_update_embeddings
SaveDueAfterBatch(j) ==
  IF j.kind = "generate_embeddings"
  THEN j.successful > 0 /\ j.successful % (j.batch_size * 5) = 0
  ELSE j.successful % j.batch_size = 0

\* the test before the save_index() after the loops: none in
\* generate_embeddings and batch_update_embeddings, `updated_count > 0` in
\* update_embeddings
SaveDueAtEnd(j) == j.kind = "update_embeddings" => j.successful > 0

SaveDue(j) ==
  \/ j.pc = "batch_end" /\ SaveDueAfterBatch(j)
  \/ j.pc = "final_save" /\ SaveDueAtEnd(j)

\* the step after a batch, and the step after the loops: save_index() when
\* due.  An exception of save_index ends the job: generate_embeddings raises
\* it, the endpoints answer with status 500.
SaveStep(j, s, dk) ==
  LET next == IF j.pc = "final_save"
              THEN [j EXCEPT !.pc = "done", !.status = "success"]
              ELSE [j EXCEPT !.pc = IF j.i > Len(j.products)
                                    THEN "final_save" ELSE "product"]
  IN IF ~SaveDue(j)
     THEN [job |-> next, svc |-> s, disk |-> dk,
           call |-> JobCall(j.pc, "", NoVec, "none", "not_saved")]
     ELSE LET r == save_index(s, dk)
          IN IF r.out.exc # "none"
             THEN [job |-> [j EXCEPT !.pc = "done", !.status = "error"],
                   svc |-> r.out.svc, disk |-> r.disk,
                   call |-> JobCall("save_index", "", NoVec, r.out.exc, r.out.why)]
             ELSE [job |-> [next EXCEPT !.unsaved = 0],
                   svc |-> r.out.svc, disk |-> r.disk,
                   call |-> JobCall("save_index", "", NoVec, "none", r.out.why)]

(***************************************************************************)
(* Two request handlers of the server running at once (app.run serves each *)
(* request in its own thread, and FAISSService holds no lock): one inside  *)
(* add_embedding, one inside search, each going through its statements     *)
(* one at a time.                                                          *)
(*   req.writer  the add_embedding call in progress: pc is the statement   *)
(*               it is about to run, before and after are the service at   *)
(*               its start and the service the whole call leaves           *)
(*   req.reader  the search call in progress: pc, its arguments, the top_k *)
(*               it clamped, what index.search gave it, and its outcome    *)
(*   req.stable  history: the states of the service between calls that the *)
(*               search in progress overlaps                               *)
(*   req.second  an add_embedding call in progress in another thread       *)
(*   req.given   history: the (product id, embedding) pairs of the         *)
(*               add_embedding calls that went past their tests            *)
(***************************************************************************)
NoWriter ==
  [pc |-> "idle", product_id |-> "", embedding |-> NoVec, idx |-> 0,
   before |-> NewService, after |-> NewService]

NoFound == [indices |-> <<>>, distances |-> <<>>]

NoReader ==
  [pc |-> "idle", query_embedding |-> NoVec, asked |-> 0, top_k |-> 0,
   found |-> NoFound, exc |-> "none", ret |-> NoResult]

NoRequests ==
  [writer |-> NoWriter, second |-> NoWriter, reader |-> NoReader,
   stable |-> {}, given |-> {}]

\* add_embedding, lines 97-113: the tests; the call goes on to line 116 when
\* it neither raises nor returns
add_embedding_goes_on(s, product_id, embedding) ==
  /\ s.ready
  /\ embedding.n = s.dimension
  /\ product_id \notin DOMAIN s.id_to_idx

\* add_embedding, one statement: self.index.add(embedding) (line 116),
\* self.product_ids.append(product_id) (lines 119-120),
\* self.id_to_idx[product_id] = idx (line 121)
add_embedding_statement(s, w) ==
  IF w.pc = "index_add"
  THEN [svc |-> [s EXCEPT !.index = IndexAdd(@, <<w.embedding>>)],
        writer |-> [w EXCEPT !.pc = "append"]]
  ELSE IF w.pc = "append"
  THEN [svc |-> [s EXCEPT !.product_ids = Append(@, w.product_id)],
        writer |-> [w EXCEPT !.pc = "id_to_idx", !.idx = Len(s.product_ids)]]
  ELSE [svc |-> [s EXCEPT !.id_to_idx = DictSet(@, w.product_id, w.idx)],
        writer |-> NoWriter]

\* search, one statement: the tests of lines 178-185; the test of line 190
\* and the clamp of line 194; index.search (line 197); the list of product
\* ids (lines 200-206).  The set of the readers the statement may leave.
search_statement(s, r) ==
  IF r.pc = "tests"
  THEN IF ~s.ready
       THEN {[r EXCEPT !.pc = "done", !.exc = "RuntimeError"]}
       ELSE IF ntotal(s.index) = 0
       THEN {[r EXCEPT !.pc = "done"]}
       ELSE {[r EXCEPT !.pc = "clamp"]}
  ELSE IF r.pc = "clamp"
  THEN IF r.query_embedding.n # s.dimension
       THEN {[r EXCEPT !.pc = "done", !.exc = "ValueError"]}
       ELSE {[r EXCEPT !.pc = "index_search", !.top_k = Min(r.asked, ntotal(s.index))]}
  ELSE IF r.pc = "index_search"
  THEN {[r EXCEPT !.pc = "product_ids", !.found = f]
        : f \in IndexSearch(s.index, r.query_embedding, r.top_k)}
  ELSE IF \E i \in DOMAIN r.found.indices : r.found.indices[i] >= Len(s.product_ids)
       THEN {[r EXCEPT !.pc = "done", !.exc = "IndexError"]}
       ELSE {[r EXCEPT !.pc = "done",
                       !.ret = [product_ids |-> [i \in DOMAIN r.found.indices |->
                                                   s.product_ids[r.found.indices[i] + 1]],
                                distances |-> r.found.distances]]}

Searching(r) == r.pc \notin {"idle", "done"}

(***************************************************************************)
(* The search endpoints of the server (src/flask_app.py) with the services *)
(* they call: DataService.get_products_by_ids and                          *)
(* LLMService.generate_outfit_reasoning.                                   *)
(*   web.df        the catalog of DataService: ready, and the product ids  *)
(*                 that have a row                                         *)
(*   web.request   the last request: endpoint, image, query, top_k,        *)
(*                 include_reasoning, hf_token, and what the reasoning     *)
(*                 model did with its call (llm)                           *)
(*   web.embedding, web.found   history: the query array and what          *)
(*                 faiss_service.search returned for it                    *)
(*   web.response  the response: status, results, llm_reasoning            *)
(***************************************************************************)
\* no array
NoArr == Arr(0, <<>>, 1)

NoData == [ready |-> FALSE, ids |-> {}]

\* what the two CSV files may hold
Catalogs == {{"A", "B"}, {"B"}, {}}

\* DataService.initialize
data_initialize(ids) == [ready |-> TRUE, ids |-> ids]

\* DataService.get_products_by_ids: the rows of the ids that have one, in
\* the order of product_ids
get_products_by_ids(df, product_ids) ==
  IF ~df.ready \/ df.ids = {} THEN <<>>
  ELSE LET has(pid) == pid \in df.ids
       IN [i \in DOMAIN SelectSeq(product_ids, has) |->
             [product_id |-> SelectSeq(product_ids, has)[i]]]

\* what the call of the reasoning model does
LLMOutcomes == {"ok", "http_error", "timeout", "malformed"}

NoReasoning == [given |-> FALSE, text |-> ""]
Reasoning(text) == [given |-> TRUE, text |-> text]

\* generate_outfit_reasoning without its try: the error of the call goes to
\* the handler
generate_outfit_reasoning_uncaught(products, hf_token, llm) ==
  IF hf_token = "" THEN [exc |-> "none", text |-> "token_required"]
  ELSE IF products = <<>> THEN [exc |-> "none", text |-> "no_products"]
  ELSE IF llm = "ok" THEN [exc |-> "none", text |-> "reasoning"]
  ELSE [exc |-> "Exception", text |-> ""]

\* LLMService.generate_outfit_reasoning: the text it returns; _call_gemma_api
\* raises Exception for an HTTP error, a timeout and a response that is not
\* of the expected form (lines 181-199), and line 71 turns it into a text
generate_outfit_reasoning(products, hf_token, llm) ==
  IF hf_token = "" THEN [exc |-> "none", text |-> "token_required"]
  ELSE IF products = <<>> THEN [exc |-> "none", text |-> "no_products"]
  ELSE IF llm = "ok" THEN [exc |-> "none", text |-> "reasoning"]
  ELSE [exc |-> "none", text |-> "error_generating_reasoning"]

NoRequest ==
  [endpoint |-> "none", image |-> "", query |-> "", top_k |-> 0,
   include_reasoning |-> FALSE, hf_token |-> "", llm |-> "ok"]

Request(endpoint, image, query, top_k, include_reasoning, hf_token, llm) ==
  [endpoint |-> endpoint, image |-> image, query |-> query, top_k |-> top_k,
   include_reasoning |-> include_reasoning, hf_token |-> hf_token, llm |-> llm]

\* a form without the file 'image', a JSON body without 'query'
NoImage == "no image"
NoQuery == "no query"

\* jsonify(...) with its status
Response(status, results, reasoning) ==
  [status |-> status, results |-> results, llm_reasoning |-> reasoning]

\* what a handler leaves: the response, with the query array and the result
\* of the index it was made from
Handled(embedding, found, response) ==
  [embedding |-> embedding, found |-> found, response |-> response]

\* the products of a result of the index with their scores and ranks (lines
\* 103-108, 165-170, 233-238): rank i + 1 of enumerate is the place in the list
scored_products(df, results) ==
  LET products == get_products_by_ids(df, results.product_ids)
  IN [i \in DOMAIN products |->
        [product_id |-> products[i].product_id,
         similarity_score |-> results.distances[i],
         rank |-> i]]

\* the part the three search handlers share, from faiss_service.search to
\* the return (lines 100-131, 162-186, 230-262); o is the outcome of search
respond(df, o, embedding, request) ==
  IF o.exc # "none" THEN Handled(embedding, NoResult, Response(500, <<>>, NoReasoning))
  ELSE LET products == scored_products(df, o.ret)
       IN IF request.include_reasoning /\ products # <<>> /\ request.hf_token # ""
          THEN LET r == generate_outfit_reasoning(products, request.hf_token, request.llm)
               IN IF r.exc # "none"
                  THEN Handled(embedding, o.ret, Response(500, <<>>, NoReasoning))
                  ELSE Handled(embedding, o.ret,
                               Response(200, products, Reasoning(r.text)))
          ELSE Handled(embedding, o.ret, Response(200, products, NoReasoning))

\* POST /api/search/image
search_by_image(s, df, request) ==
  IF request.image = NoImage
  THEN {Handled(NoArr, NoResult, Response(400, <<>>, NoReasoning))}
  ELSE LET embedding == encode_image(request.image, FALSE, "")
       IN {respond(df, o, embedding, request) : o \in search(s, Tenths(embedding), request.top_k)}

\* POST /api/search/text
search_by_text(s, df, request) ==
  IF request.query = NoQuery
  THEN {Handled(NoArr, NoResult, Response(400, <<>>, NoReasoning))}
  ELSE LET embedding == encode_text(request.query)
       IN {respond(df, o, embedding, request) : o \in search(s, Tenths(embedding), request.top_k)}

\* POST /api/search/multimodal
search_multimodal(s, df, request) ==
  IF request.image = NoImage
  THEN {Handled(NoArr, NoResult, Response(400, <<>>, NoReasoning))}
  ELSE LET embedding == encode_multimodal(request.image, request.query)
       IN {respond(df, o, embedding, request) : o \in search(s, Tenths(embedding), request.top_k)}

NoWeb ==
  [df |-> NoData, request |-> NoRequest, embedding |-> NoArr,
   found |-> NoResult, response |-> Response(0, <<>>, NoReasoning)]

(***************************************************************************)
(* The Streamlit application (src/app.py) with Modules/search.py and       *)
(* Modules/faiss_index.py: the assets it loads, one run of its script, and *)
(* the history it keeps between runs.                                      *)
(*   ui.assets        faiss_index and product_ids of load_faiss_assets     *)
(*   ui.user_history  st.session_state.user_history[user_id]               *)
(*   ui.run           the inputs of the last run: uploaded_file,           *)
(*                    text_query, top_k                                    *)
(*   ui.query_vector  history: the query vector search_similar made        *)
(*   ui.top_ids, ui.all_similar, ui.suggestion_ids   what the last run     *)
(*                    computed                                             *)
(***************************************************************************)
\* the products of the two CSV files: image and text
LegacyProduct(pid) ==
  IF pid = "A" THEN [image |-> "a.jpg", text |-> "red"]
  ELSE IF pid = "B" THEN [image |-> "b.jpg", text |-> "blue"]
  ELSE [image |-> "c.jpg", text |-> "blue"]

DataFrameIds == {"A", "B", "C"}

\* Modules/embedding.combine_embeddings: np.concatenate([img, txt])
combined_embedding(pid) ==
  Tenths(concatenate(ClipImageFeatures(LegacyProduct(pid).image),
                     SentenceEmbedding(LegacyProduct(pid).text)))

\* Modules/faiss_index.build_faiss_index, as load_faiss_assets returns it
build_faiss_index(ids) ==
  [faiss_index |-> IndexAdd(IndexFlatL2(combined_embedding(ids[1]).n),
                            [i \in DOMAIN ids |-> combined_embedding(ids[i])]),
   product_ids |-> ids]

NoAssets == [faiss_index |-> NoIndex, product_ids |-> <<>>]

\* the assets of the model
AssetIds == {<<"A">>, <<"A", "B", "C">>}

\* index.search(query, top_k) of faiss with top_k above ntotal: the places
\* found, then the label -1 for every place that is left
PaddedSearch(index, q, top_k) ==
  {[i \in 1..top_k |-> IF i <= Len(r.indices) THEN r.indices[i] ELSE -1]
   : r \in IndexSearch(index, q, Min(top_k, ntotal(index)))}

\* Modules/faiss_index.search_index
search_index(index, query_vector, top_k) == PaddedSearch(index, query_vector, top_k)

\* product_ids[i] of Python: a negative i counts from the end
ListItem(xs, i) == IF i >= 0 THEN xs[i + 1] ELSE xs[Len(xs) + i + 1]

\* Modules/search.search_similar, lines 64-77: the query vector
combined_query(query_image_path, query_text) ==
  LET image_embedding == IF query_image_path # NoImage
                         THEN ClipImageFeatures(query_image_path) ELSE zeros(512)
      text_embedding == IF query_text # ""
                        THEN SentenceEmbedding(query_text) ELSE zeros(384)
  IN concatenate(image_embedding, text_embedding)

\* Modules/search.search_similar: the outcomes [exc, ret]
search_similar(faiss_index, product_ids, query_image_path, query_text, top_k) ==
  LET query_vector == Tenths(combined_query(query_image_path, query_text))
  IN IF query_vector.n # faiss_index.d THEN {[exc |-> "ValueError", ret |-> <<>>]}
     ELSE {LET kept == SelectSeq(top_indices, LAMBDA i : i < Len(product_ids))
           IN IF \E j \in DOMAIN kept : -kept[j] > Len(product_ids)
              THEN [exc |-> "IndexError", ret |-> <<>>]
              ELSE [exc |-> "none",
                    ret |-> [j \in DOMAIN kept |-> ListItem(product_ids, kept[j])]]
           : top_indices \in search_index(faiss_index, query_vector, top_k)}

\* the elements of a sequence, and the sequences without repetition of the
\* elements of a set: list(set(...)) in any order
Range(xs) == {xs[i] : i \in DOMAIN xs}
Lists(S) == {xs \in [1..Cardinality(S) -> S] : Range(xs) = S}

\* xs[:n]
Take(xs, n) == SubSeq(xs, 1, Min(n, Len(xs)))

\* whether a run searches: `if uploaded_file or text_query.strip()` (line 124)
Searched(uploaded_file, text_query) ==
  uploaded_file # NoImage \/ text_query \notin Blank

\* the search of one run (lines 124-132): top_ids
run_search(assets, uploaded_file, text_query, top_k) ==
  IF Searched(uploaded_file, text_query)
  THEN search_similar(assets.faiss_index, assets.product_ids,
                      uploaded_file, text_query, top_k)
  ELSE {[exc |-> "none", ret |-> <<>>]}

\* all_similar of the suggestions (lines 170-180), seed after seed: a seed
\* whose search raises is skipped
RECURSIVE SimilarOf(_, _, _)
SimilarOf(assets, history_ids, i) ==
  IF i > Len(history_ids) THEN {<<>>}
  ELSE {IF o.exc = "none" THEN o.ret \o rest ELSE rest
        : o \in search_similar(assets.faiss_index, assets.product_ids,
                               LegacyProduct(history_ids[i]).image, "", 3),
          rest \in SimilarOf(assets, history_ids, i + 1)}

\* suggestion_ids that keeps the seeds
suggestions_with_seeds(all_similar, history_ids, top_k) ==
  {Take(xs, top_k) : xs \in Lists(Range(all_similar))}

\* suggestion_ids (line 182)
suggestions(all_similar, history_ids, top_k) ==
  {Take(xs, top_k) : xs \in Lists(Range(all_similar) \ Range(history_ids))}

NoRun ==
  [uploaded_file |-> NoImage, text_query |-> "", top_k |-> 0, searched |-> FALSE,
   exc |-> "none"]

NoUi ==
  [assets |-> NoAssets, user_history |-> <<>>, run |-> NoRun,
   query_vector |-> NoArr, top_ids |-> <<>>, all_similar |-> <<>>, suggestion_ids |-> <<>>]

(***************************************************************************)
(* The state machine.                                                      *)
(*   svc    the FAISSService object                                        *)
(*   disk   the files at index_path and mapping_path                       *)
(*   last   the last call: its name, its arguments (product id, vector or  *)
(*          query, top_k) and its outcome                                  *)
(*   first  history: for each product id, the vector of the add_embedding  *)
(*          call that inserted it, NoVec once the id was removed or the    *)
(*          index replaced                                                 *)
(*   added  history: for each product id, the vector it was last added     *)
(*          with, by add_embedding, add_embeddings_batch or rebuild_index  *)
(*          (a call that skips the id adds nothing); NoVec once the id was *)
(*          removed or the index replaced.  The history of an index loaded *)
(*          from the files is not kept.                                    *)
(*   scen   history: how far the calls since a fresh initialize() spell    *)
(*          add_embedding(A, [1,0,0,0]), (B, [0,1,0,0]), (C, [0.9,0.1,0,0])*)
(*          with 4-component arrays; -1 when they do not                   *)
(*   job    the embedding job in progress (generate_embeddings, or the     *)
(*          endpoints batch_update_embeddings and update_embeddings): its  *)
(*          products, its position and its counters                        *)
(*   ref    history: the service a reference computation of the last call  *)
(*          leaves.  For add_embeddings_batch(ids, rows) that returned:    *)
(*          add_embedding(ids[i], rows[i]) for i in order.  For            *)
(*          remove_product(pid) that removed: a fresh index to which the   *)
(*          other entries were added one by one in their order.  For       *)
(*          every other call: the service the call itself leaves.          *)
(***************************************************************************)
\* add_embedding(ids[i], vecs[i]) for i = from, from + 1, ... in order
RECURSIVE AddOneByOne(_, _, _, _)
AddOneByOne(s, ids, vecs, from) ==
  IF from > Len(ids) THEN s
  ELSE AddOneByOne(add_embedding(s, ids[from], vecs[from]).svc, ids, vecs, from + 1)

\* a fresh index to which the entries of s other than pid's are added one by
\* one, in their order
FreshWithout(s, pid) ==
  LET others == {i \in DOMAIN s.product_ids : s.product_ids[i] # pid}
  IN AddOneByOne(create_new_index(s), Pick(s.product_ids, others),
                 Pick(s.index.xb, others), 1)

\* the vectors last added after a batch of ids and rows was added to s: the
\* ids that s already holds are skipped
RECURSIVE AddedBy(_, _, _, _, _)
AddedBy(a, s, ids, vecs, from) ==
  IF from > Len(ids) THEN a
  ELSE AddedBy(IF ids[from] \in DOMAIN s.id_to_idx THEN a
               ELSE [a EXCEPT ![ids[from]] = vecs[from]],
               s, ids, vecs, from + 1)

Call(op, pid, vec, k, o) ==
  [op |-> op, pid |-> pid, vec |-> vec, k |-> k,
   exc |-> o.exc, why |-> o.why, ret |-> o.ret]

NoFirst == [p \in ScenarioIds |-> NoVec]

ScenStep(pid, vec) ==
  IF scen = 0 /\ pid = "A" /\ vec = ShortA THEN 1
  ELSE IF scen = 1 /\ pid = "B" /\ vec = ShortB THEN 2
  ELSE IF scen = 2 /\ pid = "C" /\ vec = ShortC THEN 3
  ELSE -1

Init ==
  /\ svc = NewService
  /\ disk = NoDisk
  /\ last = Call("__init__", "", NoVec, 0, Returns(NewService, "constructed", NoResult))
  /\ first = NoFirst
  /\ added = NoFirst
  /\ scen = -1
  /\ ref = NewService
  /\ job = NoJob
  /\ req = NoRequests
  /\ web = NoWeb
  /\ ui = NoUi

\* a new process: FAISSService() with the same paths
Restart ==
  /\ svc' = NewService
  /\ last' = Call("__init__", "", NoVec, 0, Returns(NewService, "constructed", NoResult))
  /\ first' = NoFirst
  /\ added' = NoFirst
  /\ scen' = -1
  /\ ref' = NewService
  /\ UNCHANGED <<disk, job, req, web, ui>>

Initialize ==
  \E o \in {initialize(svc, disk)} :
     /\ svc' = o.svc
     /\ ref' = o.svc
     /\ last' = Call("initialize", "", NoVec, 0, o)
     /\ first' = NoFirst
     /\ added' = NoFirst
     /\ scen' = IF ntotal(o.svc.index) = 0 THEN 0 ELSE -1
     /\ UNCHANGED <<disk, job, req, web, ui>>

SaveIndex ==
  \E r \in {save_index(svc, disk)} :
     /\ svc' = r.out.svc
     /\ ref' = r.out.svc
     /\ disk' = r.disk
     /\ last' = Call("save_index", "", NoVec, 0, r.out)
     /\ UNCHANGED <<first, added, scen, job, req, web, ui>>

\* the process ends inside save_index
CrashInSave(stage) ==
  /\ svc.index.exists
  /\ disk' = save_index_cut_short(svc, disk, stage)
  /\ svc' = NewService
  /\ ref' = NewService
  /\ last' = Call("__init__", "", NoVec, 0, Returns(NewService, "constructed", NoResult))
  /\ first' = NoFirst
  /\ added' = NoFirst
  /\ scen' = -1
  /\ UNCHANGED <<job, req, web, ui>>

AddEmbedding(pid, vec) ==
  \E o \in {add_embedding(svc, pid, vec)} :
     /\ svc' = o.svc
     /\ ref' = o.svc
     /\ last' = Call("add_embedding", pid, vec, 0, o)
     /\ first' = IF o.why = "added" THEN [first EXCEPT ![pid] = vec] ELSE first
     /\ added' = IF o.why = "added" THEN [added EXCEPT ![pid] = vec] ELSE added
     /\ scen' = ScenStep(pid, vec)
     /\ UNCHANGED <<disk, job, req, web, ui>>

AddEmbeddingsBatch(ids, vecs) ==
  \E o \in {add_embeddings_batch(svc, ids, vecs)} :
     /\ svc' = o.svc
     /\ ref' = IF o.exc = "none" THEN AddOneByOne(svc, ids, vecs, 1) ELSE o.svc
     /\ last' = Call("add_embeddings_batch", "", NoVec, 0, o)
     /\ added' = IF o.why = "added" THEN AddedBy(added, svc, ids, vecs, 1) ELSE added
     /\ scen' = -1
     /\ UNCHANGED <<disk, first, job, req, web, ui>>

Search(q, k) ==
  \E o \in search(svc, q, k) :
     /\ svc' = o.svc
     /\ ref' = o.svc
     /\ last' = Call("search", "", q, k, o)
     /\ UNCHANGED <<disk, first, added, scen, job, req, web, ui>>

SearchWithThreshold(q, k, t) ==
  \E o \in search_with_threshold(svc, q, k, t) :
     /\ svc' = o.svc
     /\ ref' = o.svc
     /\ last' = Call("search_with_threshold", "", q, k, o)
     /\ UNCHANGED <<disk, first, added, scen, job, req, web, ui>>

RemoveProduct(pid) ==
  \E o \in {remove_product(svc, pid)} :
     /\ svc' = o.svc
     /\ ref' = IF o.why = "removed" THEN FreshWithout(svc, pid) ELSE o.svc
     /\ last' = Call("remove_product", pid, NoVec, 0, o)
     /\ first' = IF o.why = "not_found" THEN first ELSE [first EXCEPT ![pid] = NoVec]
     /\ added' = IF o.why = "not_found" THEN added ELSE [added EXCEPT ![pid] = NoVec]
     /\ scen' = -1
     /\ UNCHANGED <<disk, job, req, web, ui>>

RebuildIndex(ids, vecs) ==
  \E o \in {rebuild_index(svc, ids, vecs)} :
     /\ svc' = o.svc
     /\ ref' = o.svc
     /\ last' = Call("rebuild_index", "", NoVec, 0, o)
     /\ first' = NoFirst
     /\ added' = IF o.why = "rebuilt"
                 THEN AddedBy(NoFirst, create_new_index(svc), ids, vecs, 1)
                 ELSE NoFirst
     /\ scen' = -1
     /\ UNCHANGED <<disk, job, req, web, ui>>

\* a job starts in a process that has just called initialize():
\* generate_embeddings lines 35-36, flask_app.py line 435
StartJob(kind, batch_size, products) ==
  /\ ~Running(job)
  /\ \E o \in {initialize(NewService, disk)} :
        /\ svc' = o.svc
        /\ ref' = o.svc
        /\ last' = Call("initialize", "", NoVec, 0, o)
        /\ job' = NewJob(kind, batch_size, products, o.svc)
  /\ first' = NoFirst
  /\ added' = NoFirst
  /\ scen' = -1
  /\ UNCHANGED <<disk, req, web, ui>>

\* one product of the job
JobProduct(outcome) ==
  /\ job.pc = "product"
  /\ \E r \in {IF job.kind = "generate_embeddings"
               THEN generate_embeddings_product(job, svc, outcome)
               ELSE update_embeddings_product(job, svc, outcome)} :
        /\ job' = r.job
        /\ svc' = r.svc
        /\ ref' = r.svc
        /\ last' = r.call
  /\ UNCHANGED <<disk, first, added, scen, req, web, ui>>

\* the end of a batch, and the end of the job
JobSave ==
  /\ job.pc \in {"batch_end", "final_save"}
  /\ \E r \in {SaveStep(job, svc, disk)} :
        /\ job' = r.job
        /\ svc' = r.svc
        /\ ref' = r.svc
        /\ disk' = r.disk
        /\ last' = r.call
  /\ UNCHANGED <<first, added, scen, req, web, ui>>

\* the process of the job ends (KeyboardInterrupt, a kill, a crash): between
\* two steps, or inside a save_index() that is due
JobInterrupted ==
  /\ Running(job)
  /\ job' = NoJob
  /\ svc' = NewService
  /\ ref' = NewService
  /\ last' = JobCall("interrupted", "", NoVec, "none", "between_steps")
  /\ UNCHANGED <<disk, first, added, scen, req, web, ui>>

JobInterruptedInSave(stage) ==
  /\ Running(job)
  /\ SaveDue(job)
  /\ disk' = save_index_cut_short(svc, disk, stage)
  /\ job' = NoJob
  /\ svc' = NewService
  /\ ref' = NewService
  /\ last' = JobCall("interrupted", "", NoVec, "none", "in_save_index")
  /\ UNCHANGED <<first, added, scen, req, web, ui>>

\* a handler enters add_embedding and passes its tests
BeginAddEmbedding(pid, vec) ==
  /\ req.writer.pc = "idle"
  /\ add_embedding_goes_on(svc, pid, vec)
  /\ \E o \in {add_embedding(svc, pid, vec)} :
        req' = [req EXCEPT !.writer = [NoWriter EXCEPT !.pc = "index_add",
                                                        !.product_id = pid,
                                                        !.embedding = vec,
                                                        !.before = svc,
                                                        !.after = o.svc],
                           !.stable = IF Searching(req.reader)
                                      THEN @ \cup {o.svc} ELSE @,
                           !.given = @ \cup {<<pid, vec>>}]
  /\ UNCHANGED <<svc, disk, last, first, added, scen, ref, job, web, ui>>

\* the handler inside add_embedding runs its next statement
AddEmbeddingStatement ==
  /\ req.writer.pc # "idle"
  /\ \E n \in {add_embedding_statement(svc, req.writer)} :
        /\ svc' = n.svc
        /\ req' = [req EXCEPT !.writer = n.writer]
  /\ UNCHANGED <<disk, last, first, added, scen, ref, job, web, ui>>

\* a handler in another thread enters add_embedding and passes its tests
BeginSecondAddEmbedding(pid, vec) ==
  /\ req.second.pc = "idle"
  /\ add_embedding_goes_on(svc, pid, vec)
  /\ \E o \in {add_embedding(svc, pid, vec)} :
        req' = [req EXCEPT !.second = [NoWriter EXCEPT !.pc = "index_add",
                                                        !.product_id = pid,
                                                        !.embedding = vec,
                                                        !.before = svc,
                                                        !.after = o.svc],
                           !.given = @ \cup {<<pid, vec>>}]
  /\ UNCHANGED <<svc, disk, last, first, added, scen, ref, job, web, ui>>

\* and runs its next statement
SecondAddEmbeddingStatement ==
  /\ req.second.pc # "idle"
  /\ \E n \in {add_embedding_statement(svc, req.second)} :
        /\ svc' = n.svc
        /\ req' = [req EXCEPT !.second = n.writer]
  /\ UNCHANGED <<disk, last, first, added, scen, ref, job, web, ui>>

\* a handler enters search
BeginSearch(q, k) ==
  /\ ~Searching(req.reader)
  /\ req' = [req EXCEPT !.reader = [NoReader EXCEPT !.pc = "tests",
                                                    !.query_embedding = q,
                                                    !.asked = k],
                        !.stable = IF req.writer.pc = "idle" THEN {svc}
                                   ELSE {req.writer.before, req.writer.after}]
  /\ UNCHANGED <<svc, disk, last, first, added, scen, ref, job, web, ui>>

\* the handler inside search runs its next statement
SearchStatement ==
  /\ Searching(req.reader)
  /\ \E r \in search_statement(svc, req.reader) :
        /\ req' = [req EXCEPT !.reader = r]
        /\ last' = IF r.pc = "done"
                   THEN Call("search", "", r.query_embedding, r.asked,
                             [exc |-> r.exc, why |-> "concurrent", ret |-> r.ret])
                   ELSE last
  /\ UNCHANGED <<svc, disk, first, added, scen, ref, job, web, ui>>

\* data_service.initialize() at the start of the server
DataInitialize(ids) ==
  /\ ~web.df.ready
  /\ web' = [web EXCEPT !.df = data_initialize(ids)]
  /\ UNCHANGED <<svc, disk, last, first, added, scen, ref, job, req, ui>>

\* a request to one of the three search endpoints, and its response
SearchRequest(request) ==
  /\ \E h \in IF request.endpoint = "search_by_image"
              THEN search_by_image(svc, web.df, request)
              ELSE IF request.endpoint = "search_by_text"
              THEN search_by_text(svc, web.df, request)
              ELSE search_multimodal(svc, web.df, request) :
        web' = [web EXCEPT !.request = request,
                           !.embedding = h.embedding,
                           !.found = h.found,
                           !.response = h.response]
  /\ UNCHANGED <<svc, disk, last, first, added, scen, ref, job, req, ui>>

\* load_assets of the application (lines 61-77)
LoadAssets(ids) ==
  /\ ~ui.assets.faiss_index.exists
  /\ ui' = [ui EXCEPT !.assets = build_faiss_index(ids)]
  /\ UNCHANGED <<svc, disk, last, first, added, scen, ref, job, req, web>>

\* one run of the script of the application, from the search to the
\* suggestions (lines 124-197): the inputs of the page, whether the button
\* of the fake history was pressed, and the rows df.sample drew
Run(uploaded_file, text_query, top_k, simulate, random_ids) ==
  /\ ui.assets.faiss_index.exists
  /\ \E s \in run_search(ui.assets, uploaded_file, text_query, top_k) :
        IF s.exc # "none"
        THEN ui' = [ui EXCEPT !.run = [uploaded_file |-> uploaded_file,
                                       text_query |-> text_query,
                                       top_k |-> top_k, searched |-> TRUE,
                                       exc |-> s.exc],
                              !.query_vector = combined_query(uploaded_file, text_query),
                              !.top_ids = <<>>,
                              !.all_similar = <<>>,
                              !.suggestion_ids = <<>>]
        ELSE \E history_ids \in IF simulate
                                THEN Lists(random_ids \cup Range(s.ret))
                                ELSE {ui.user_history} :
               \E all_similar \in IF history_ids # <<>>
                                  THEN SimilarOf(ui.assets, history_ids, 1)
                                  ELSE {<<>>} :
                 \E suggestion_ids \in suggestions(all_similar, history_ids, top_k) :
                    ui' = [ui EXCEPT !.run = [uploaded_file |-> uploaded_file,
                                              text_query |-> text_query,
                                              top_k |-> top_k,
                                              searched |-> Searched(uploaded_file, text_query),
                                              exc |-> "none"],
                                     !.query_vector =
                                        IF Searched(uploaded_file, text_query)
                                        THEN combined_query(uploaded_file, text_query)
                                        ELSE NoArr,
                                     !.user_history = history_ids,
                                     !.top_ids = s.ret,
                                     !.all_similar = all_similar,
                                     !.suggestion_ids = suggestion_ids]
  /\ UNCHANGED <<svc, disk, last, first, added, scen, ref, job, req, web>>

\* what a batch call is given: as many rows of the index dimension as ids
GoodBatches ==
  UNION {[1..m -> ProductIds] \X [1..m -> GoodVectors] : m \in 0..MaxBatch}
\* rows that are too short, rows of differing lengths, a row too few, a row
\* too many, no row
BadBatches ==
  {<<<<"A">>, <<ShortA>>>>,
   <<<<"A", "B">>, <<ShortA, ShortA>>>>,
   <<<<"A", "B">>, <<VecA, ShortA>>>>,
   <<<<"A", "B">>, <<ShortA>>>>,
   <<<<"A", "B">>, <<VecA>>>>,
   <<<<"B">>, <<VecA, VecC>>>>,
   <<<<"A">>, <<>>>>}
BatchInputs == GoodBatches \cup BadBatches
\* what rebuild_index is given: the same with every row the vector VecA
RebuildInputs ==
  {c \in BatchInputs : \A i \in DOMAIN c[2] : c[2][i] # VecC}

\* the index operations of one process; nothing is saved
Next ==
  \/ Initialize
  \/ \E pid \in ProductIds, vec \in Vectors :
        AddEmbedding(pid, vec) /\ Len(svc'.product_ids) <= MaxVectors
  \/ \E c \in BatchInputs :
        AddEmbeddingsBatch(c[1], c[2]) /\ Len(svc'.product_ids) <= MaxVectors
  \/ \E q \in Queries, k \in TopKs : Search(q, k)
  \/ \E q \in Queries, k \in TopKs, t \in Thresholds : SearchWithThreshold(q, k, t)
  \/ \E pid \in ProductIds : RemoveProduct(pid)
  \/ \E c \in RebuildInputs : RebuildIndex(c[1], c[2])

Spec == Init /\ [][Next]_vars

\* saving, restarting and loading
NextPersist ==
  \/ Initialize
  \/ Restart
  \/ SaveIndex
  \/ \E pid \in ProductIds, vec \in GoodVectors :
        AddEmbedding(pid, vec) /\ Len(svc'.product_ids) <= MaxPersisted
  \/ \E ids \in [1..2 -> ProductIds], vecs \in [1..2 -> GoodVectors] :
        AddEmbeddingsBatch(ids, vecs) /\ Len(svc'.product_ids) <= MaxPersisted
  \/ \E pid \in ProductIds : RemoveProduct(pid)

SpecPersist == Init /\ [][NextPersist]_vars

\* saving, with the process ending inside save_index, restarting and loading
NextCrash ==
  \/ Initialize
  \/ Restart
  \/ SaveIndex
  \/ \E stage \in SaveStages : CrashInSave(stage)
  \/ \E pid \in ProductIds, vec \in GoodVectors :
        /\ AddEmbedding(pid, vec)
        /\ Len(svc'.product_ids) <= MaxPersisted
        /\ ntotal(svc'.index) <= MaxPersisted

SpecCrash == Init /\ [][NextCrash]_vars

\* the embedding jobs, run one after the other, each to its end or to the
\* end of its process
JobKinds == {"generate_embeddings", "batch_update_embeddings"}

NextJob ==
  \/ \E kind \in JobKinds, batch_size \in BatchSizes, products \in ProductLists :
        StartJob(kind, batch_size, products)
  \/ \E products \in ProductLists : StartJob("update_embeddings", 1, products)
  \/ \E outcome \in EncoderOutcomes :
        JobProduct(outcome) /\ ntotal(svc'.index) <= MaxStored
  \/ JobSave
  \/ JobInterrupted
  \/ \E stage \in SaveStages : JobInterruptedInSave(stage)

SpecJob == Init /\ [][NextJob]_vars

\* the server: initialize() before it serves (flask_app.py, lines 434-436),
\* then handlers in two threads
NextThreads ==
  \/ ~svc.ready /\ req.writer.pc = "idle" /\ ~Searching(req.reader) /\ Initialize
  \/ \E pid \in ProductIds, vec \in GoodVectors : BeginAddEmbedding(pid, vec)
  \/ AddEmbeddingStatement
  \/ \E q \in Queries, k \in 1..2 : BeginSearch(q, k)
  \/ SearchStatement

SpecThreads == Init /\ [][NextThreads]_vars

\* the server with add_embedding running in two threads
NextWriters ==
  \/ ~svc.ready /\ req.writer.pc = "idle" /\ req.second.pc = "idle" /\ Initialize
  \/ \E pid \in ProductIds, vec \in GoodVectors : BeginAddEmbedding(pid, vec)
  \/ AddEmbeddingStatement
  \/ \E pid \in ProductIds, vec \in GoodVectors : BeginSecondAddEmbedding(pid, vec)
  \/ SecondAddEmbeddingStatement

SpecWriters == Init /\ [][NextWriters]_vars

\* the requests of the model: whether reasoning is asked for, the token and
\* what the reasoning model does
Reasonings ==
  {<<TRUE, "hf_token", llm>> : llm \in LLMOutcomes}
    \cup {<<FALSE, "hf_token", "ok">>, <<TRUE, "", "ok">>}

Requests ==
  {Request("search_by_image", image, "", top_k, r[1], r[2], r[3])
   : image \in {"a.jpg", "b.jpg", NoImage}, top_k \in 1..2, r \in Reasonings}
  \cup
  {Request("search_by_text", NoImage, query, top_k, r[1], r[2], r[3])
   : query \in {"", " ", "red", NoQuery}, top_k \in {2}, r \in Reasonings}
  \cup
  {Request("search_multimodal", image, query, top_k, r[1], r[2], r[3])
   : image \in {"a.jpg", NoImage}, query \in {"", "red"}, top_k \in {2},
     r \in Reasonings}

\* the server: main initializes the services and then serves (lines
\* 428-446), answering search requests one at a time over an index that
\* grows
Serving == svc.ready /\ web.df.ready

NextSearchApi ==
  \/ ~svc.ready /\ Initialize
  \/ \E ids \in Catalogs : DataInitialize(ids)
  \/ Serving /\ \E c \in {<<"A", VecA>>, <<"B", VecC>>} : AddEmbedding(c[1], c[2])
  \/ Serving /\ \E request \in Requests : SearchRequest(request)

SpecSearchApi == Init /\ [][NextSearchApi]_vars

\* the application: its assets, then runs of its script
UiTopKs == 1..Cardinality(DataFrameIds)

NextUi ==
  \/ \E ids \in AssetIds : LoadAssets(ids)
  \/ \E uploaded_file \in {"a.jpg", NoImage}, text_query \in {"", " ", "red"},
        top_k \in UiTopKs, simulate \in BOOLEAN :
        \E random_ids \in {S \in SUBSET DataFrameIds : Cardinality(S) = top_k} :
           Run(uploaded_file, text_query, top_k, simulate, random_ids)

SpecUi == Init /\ [][NextUi]_vars

\* the three-product catalogue A, B, C, each product with its own vector,
\* given at the index dimension or as a plain 4-component array
Catalogue ==
  {<<"A", VecA>>, <<"B", VecB>>, <<"C", VecC>>,
   <<"A", ShortA>>, <<"B", ShortB>>, <<"C", ShortC>>}

NextCatalogue ==
  \/ Initialize
  \/ \E c \in Catalogue : AddEmbedding(c[1], c[2])
  \/ \E q \in Queries, k \in TopKs : Search(q, k)
  \/ \E pid \in ScenarioIds : RemoveProduct(pid)

SpecCatalogue == Init /\ [][NextCatalogue]_vars

(***************************************************************************)
(* Helpers of the properties.                                              *)
(***************************************************************************)
Count(xs, x) == Cardinality({i \in DOMAIN xs : xs[i] = x})

Ready == svc.ready

\* the three fields that make up the index state
SameIndexState(s, t) ==
  /\ s.index = t.index
  /\ s.product_ids = t.product_ids
  /\ s.id_to_idx = t.id_to_idx

Sorted(ds) == \A i, j \in DOMAIN ds : i <= j => ds[i] <= ds[j]

WrongLength(v) == v.n # dimension

\* C1: the number of vectors in the index equals len(product_ids) equals
\* len(id_to_idx), and every product id is at exactly one position, after any
\* sequence of initialize, add, batch add, remove and rebuild calls.
C1_IndexAndMappingInLockstep ==
  svc.index.exists =>
    /\ ntotal(svc.index) = Len(svc.product_ids)
    /\ Len(svc.product_ids) = Cardinality(DOMAIN svc.id_to_idx)
    /\ \A pid \in DOMAIN svc.id_to_idx : Count(svc.product_ids, pid) = 1

\* C2: on an initialized service, add_embedding with a vector of the wrong
\* length, and add_embeddings_batch with a row of the wrong length, raise
\* ValueError and leave index, product_ids and id_to_idx as they were.
C2_MismatchRaisesAndKeepsState ==
  Ready =>
    /\ \A pid \in ScenarioIds, v \in {ShortA, ShortB, ShortC} :
          add_embedding(svc, pid, v) = Raises(svc, "ValueError", "dimension")
    /\ \A c \in BatchInputs :
          (\E i \in DOMAIN c[2] : WrongLength(c[2][i])) =>
             LET o == add_embeddings_batch(svc, c[1], c[2])
             IN /\ o.exc = "ValueError"
                /\ o.why \in {"dimension", "inhomogeneous"}
                /\ o.svc = svc

C2_Witness ==
  /\ last.op = "add_embedding"
  /\ WrongLength(last.vec)
  /\ last.exc = "ValueError"
  /\ last.pid \in DOMAIN svc.id_to_idx
  /\ ntotal(svc.index) >= 2

\* C3: once add_embedding(pid, v1) has inserted pid, a later
\* add_embedding(pid, v2) changes nothing and raises nothing, pid has exactly
\* one entry and get_product_embedding(pid) is v1.
C3_SecondAddIsNoOp ==
  /\ \A pid \in DOMAIN svc.id_to_idx, v \in {VecA, VecB, VecC} :
        Ready => add_embedding(svc, pid, v) = Returns(svc, "duplicate_skipped", NoResult)
  /\ \A pid \in ScenarioIds :
        first[pid] # NoVec =>
          /\ Count(svc.product_ids, pid) = 1
          /\ get_product_embedding(svc, pid) = first[pid]

C3_Witness ==
  /\ last.op = "add_embedding"
  /\ last.why = "duplicate_skipped"
  /\ first[last.pid] # NoVec
  /\ first[last.pid] # last.vec
  /\ get_product_embedding(svc, last.pid) = first[last.pid]

\* C4: remove_product(pid) on an index containing pid makes
\* get_product_embedding(pid) report not-found, no search returns pid, and the
\* index state equals that of a fresh index to which the other entries were
\* added in their insertion order.
C4_RemoveEqualsFreshBuild ==
  (last.op = "remove_product" /\ last.why = "removed") =>
     /\ last.exc = "none"
     /\ get_product_embedding(svc, last.pid) = NoVec
     /\ \A q \in Queries, k \in TopKs :
           \A r \in search(svc, q, k) :
              \A i \in DOMAIN r.ret.product_ids : r.ret.product_ids[i] # last.pid
     /\ SameIndexState(svc, ref)

\* C5: save_index() followed by initialize() on a fresh FAISSService with the
\* same paths restores product_ids, id_to_idx and the vectors, so every
\* search(q, k) has the same results as before the save.
C5_SaveThenLoadRestores ==
  Ready =>
    LET r == save_index(svc, disk)
        o == initialize(NewService, r.disk)
    IN /\ r.out.exc = "none"
       /\ o.why = "loaded"
       /\ SameIndexState(o.svc, svc)
       /\ \A q \in Queries, k \in TopKs :
             {[exc |-> x.exc, ret |-> x.ret] : x \in search(o.svc, q, k)}
               = {[exc |-> x.exc, ret |-> x.ret] : x \in search(svc, q, k)}

C5_Witness ==
  /\ last.op = "initialize"
  /\ last.why = "loaded"
  /\ ntotal(svc.index) >= 2
  /\ svc.product_ids = disk.mapping_file.product_ids
  /\ svc.index.xb = disk.index_file.xb

\* C6: search with a query of the index dimension returns exactly
\* min(top_k, number of stored vectors) results: none, and no error, on an
\* empty index; all stored vectors when top_k exceeds their number.
C6_SearchReturnsMinOfKAndTotal ==
  Ready =>
    \A q \in Queries, k \in TopKs :
      ~WrongLength(q) =>
        \A o \in search(svc, q, k) :
          /\ o.exc = "none"
          /\ Len(o.ret.product_ids) = Min(k, ntotal(svc.index))
          /\ Len(o.ret.distances) = Min(k, ntotal(svc.index))

C6_Witness ==
  /\ last.op = "search"
  /\ last.exc = "none"
  /\ ntotal(svc.index) >= 2
  /\ last.k > ntotal(svc.index)
  /\ Len(last.ret.product_ids) = ntotal(svc.index)

\* C7: the distances search returns are non-decreasing, and the i-th distance
\* is the distance of the query to the stored entry whose product id is
\* returned i-th (distinct results are distinct entries).
C7_DistancesSortedAndAligned ==
  Ready =>
    \A q \in Queries, k \in TopKs :
      ~WrongLength(q) =>
        \A o \in search(svc, q, k) :
          /\ Sorted(o.ret.distances)
          /\ \E pos \in [DOMAIN o.ret.product_ids -> DOMAIN svc.product_ids] :
                /\ \A i, j \in DOMAIN pos : i # j => pos[i] # pos[j]
                /\ \A i \in DOMAIN pos :
                      /\ svc.product_ids[pos[i]] = o.ret.product_ids[i]
                      /\ L2Sqr(q, svc.index.xb[pos[i]]) = o.ret.distances[i]

C7_Witness ==
  /\ last.op = "search"
  /\ Len(last.ret.distances) >= 2
  /\ last.ret.distances[1] < last.ret.distances[2]
  /\ last.ret.product_ids[1] = svc.product_ids[2]

\* the rows of the index nearer to q than d, and those at most as far as d
Nearer(q, d) == {j \in DOMAIN svc.index.xb : L2Sqr(q, svc.index.xb[j]) < d}
NotFarther(q, d) == {j \in DOMAIN svc.index.xb : L2Sqr(q, svc.index.xb[j]) <= d}

ScenarioResult == [product_ids |-> <<"A", "C">>, distances |-> <<0, 2>>]

\* C8 (as amended): search(q, k) returns min(k, stored) stored product ids
\* with the smallest squared Euclidean distances to q, each with that
\* distance; with A = [1,0,0,0], B = [0,1,0,0], C = [0.9,0.1,0,0], each
\* zero-padded to the index dimension 896 and added in that order, the search
\* for the padded [1,0,0,0] with top_k = 2 returns [A, C] with distances 0 and
\* 0.02.
C8_NearestAtIndexDimension ==
  Ready =>
    /\ \A q \in Queries, k \in TopKs :
         ~WrongLength(q) =>
           \A o \in search(svc, q, k) :
             /\ Len(o.ret.distances) = Min(k, ntotal(svc.index))
             /\ \A i \in DOMAIN o.ret.distances :
                  /\ Cardinality(Nearer(q, o.ret.distances[i])) < i
                  /\ Cardinality(NotFarther(q, o.ret.distances[i])) >= i
                  /\ \E j \in DOMAIN svc.product_ids :
                        /\ svc.product_ids[j] = o.ret.product_ids[i]
                        /\ L2Sqr(q, svc.index.xb[j]) = o.ret.distances[i]
    /\ (svc.product_ids = <<"A", "B", "C">> /\ svc.index.xb = <<VecA, VecB, VecC>>) =>
         search(svc, VecA, 2) = {Returns(svc, "found", ScenarioResult)}

C8_Witness ==
  /\ svc.product_ids = <<"A", "B", "C">>
  /\ svc.index.xb = <<VecA, VecB, VecC>>
  /\ last.op = "search"
  /\ last.vec = VecA
  /\ last.k = 2
  /\ last.ret = ScenarioResult

\* C8 (as claimed): after add_embedding(A, [1,0,0,0]), add_embedding(B,
\* [0,1,0,0]) and add_embedding(C, [0.9,0.1,0,0]) on a fresh index,
\* search([1,0,0,0], 2) returns [A, C] with distances 0 and 0.02.
C8_ScenarioAsClaimed ==
  (scen = 3 /\ last.op = "search" /\ last.vec = ShortA /\ last.k = 2) =>
     (last.exc = "none" /\ last.ret = ScenarioResult)

\* C9: on an initialized service, search with a query of the wrong length
\* fails with ValueError in every index state, the empty index included.
C9_WrongQueryLengthRaises ==
  (Ready /\ last.op = "search" /\ WrongLength(last.vec)) => last.exc = "ValueError"

\* C10: for every batch (also one that repeats a product id)
\* add_embeddings_batch(ids, vectors) leaves the index state that
\* add_embedding(ids[i], vectors[i]) for i in order leaves.
C10_BatchEqualsOneByOne ==
  (last.op = "add_embeddings_batch" /\ last.exc = "none") => SameIndexState(svc, ref)

\* C11: add_embeddings_batch with a number of product ids different from the
\* number of rows raises an error and leaves index, product_ids and id_to_idx
\* as they were, in every state of the service.
C11_ArityMismatchRaisesAndKeepsState ==
  \A c \in BatchInputs \cup {<<<<>>, <<VecA>>>>, <<<<"A", "B", "A">>, <<VecA, VecC>>>>} :
     Len(c[1]) # Len(c[2]) =>
        LET o == add_embeddings_batch(svc, c[1], c[2])
        IN /\ o.exc \in {"ValueError", "IndexError", "RuntimeError"}
           /\ Ready => o.exc # "RuntimeError"
           /\ o.svc = svc

C11_Witness ==
  /\ last.op = "add_embeddings_batch"
  /\ last.exc = "ValueError"
  /\ last.why = "arity"
  /\ ntotal(svc.index) >= 1
  /\ "B" \notin DOMAIN svc.id_to_idx

\* xs is ys without some of its entries: the places `at` of ys, in order
SubsequenceAt(xs, ys, at) ==
  /\ \A i, j \in DOMAIN at : i < j => at[i] < at[j]
  /\ \A i \in DOMAIN at : xs[i] = ys[at[i]]

\* C12: search_with_threshold(q, top_k, max_distance) returns the entries of
\* a search(q, top_k) result whose distances are <= max_distance, all of them
\* and in the same order, so at most top_k entries and none that search does
\* not return; with no threshold it returns the search result unchanged.
C12_ThresholdFiltersSearchResult ==
  Ready =>
    \A q \in Queries, k \in TopKs, t \in Thresholds :
      \A o \in search_with_threshold(svc, q, k, t) :
        \E r \in search(svc, q, k) :
          /\ o.exc = r.exc
          /\ o.svc = svc
          /\ ~t.given => o.ret = r.ret
          /\ t.given =>
               LET within == {i \in DOMAIN r.ret.distances : r.ret.distances[i] <= t.max}
               IN /\ Len(o.ret.product_ids) = Cardinality(within)
                  /\ Len(o.ret.distances) = Cardinality(within)
                  /\ Len(o.ret.product_ids) <= k
                  /\ \E at \in [DOMAIN o.ret.product_ids -> within] :
                        /\ SubsequenceAt(o.ret.product_ids, r.ret.product_ids, at)
                        /\ SubsequenceAt(o.ret.distances, r.ret.distances, at)

\* a thresholded search that dropped the farther of two results and kept the
\* one at exactly the threshold
C12_Witness ==
  /\ last.op = "search_with_threshold"
  /\ last.exc = "none"
  /\ last.k >= 2
  /\ ntotal(svc.index) >= 2
  /\ last.ret.distances = <<0>>
  /\ \E r \in search(svc, last.vec, last.k) :
        /\ Len(r.ret.distances) >= 2
        /\ r.ret.distances[2] > 0
        /\ r.ret.product_ids[1] = last.ret.product_ids[1]

\* C14: after any sequence of add, batch add, remove and rebuild calls,
\* get_product_embedding(pid) is, for every pid in the index, the vector pid
\* was last added with, and None for every pid not in the index;
\* id_to_idx[pid] is a position of pid in product_ids and the row there is
\* that vector.
C14_EmbeddingOfProductIsItsOwn ==
  \A pid \in ScenarioIds :
     IF Count(svc.product_ids, pid) = 0
     THEN /\ pid \notin DOMAIN svc.id_to_idx
          /\ get_product_embedding(svc, pid) = NoVec
     ELSE /\ pid \in DOMAIN svc.id_to_idx
          /\ svc.id_to_idx[pid] + 1 \in DOMAIN svc.product_ids
          /\ svc.product_ids[svc.id_to_idx[pid] + 1] = pid
          /\ added[pid] # NoVec
          /\ svc.index.xb[svc.id_to_idx[pid] + 1] = added[pid]
          /\ get_product_embedding(svc, pid) = added[pid]

\* B, added after A with another vector, is left with its own vector when A
\* is removed
C14_Witness ==
  /\ last.op = "remove_product"
  /\ last.why = "removed"
  /\ last.pid = "A"
  /\ svc.product_ids = <<"B">>
  /\ added["B"] = VecC
  /\ get_product_embedding(svc, "B") = VecC
  /\ get_product_embedding(svc, "A") = NoVec

\* the two files do not hold one saved state: one of them is missing or
\* cannot be read, or the numbers of rows and of product ids differ
Inconsistent(dk) ==
  \/ dk.index_file.exists # dk.mapping_file.exists
  \/ /\ dk.index_file.exists
     /\ dk.mapping_file.exists
     /\ \/ dk.index_file.torn
        \/ dk.mapping_file.torn
        \/ Len(dk.index_file.xb) # Len(dk.mapping_file.product_ids)

\* C15: initialize() on persisted state that is inconsistent (one blob
\* without the other, or differing counts, as after a crash between the two
\* writes of save_index) reports an error: the service does not become ready
\* with mismatched vectors and ids, nor with a silently created empty index.
C15_InconsistentFilesAreReported ==
  (last.op = "initialize" /\ Inconsistent(disk)) =>
     /\ last.exc # "none"
     /\ ~svc.ready

\* C16: at every point of a batch embedding job (generate_embeddings, the
\* endpoint batch_update_embeddings) the embeddings added to the index in
\* memory and not yet saved are at most batch_size.
C16_UnsavedAtMostOneBatch ==
  (Running(job) /\ job.kind \in JobKinds) => job.unsaved <= job.batch_size

\* the products of the job that have an image
Embeddable(j) ==
  {j.products[i].product_id : i \in {i \in DOMAIN j.products :
                                       j.products[i].feature_image_s3 # ""}}

\* a run that reached its end with no failure but the products without image
CompleteRun(j) ==
  /\ j.pc = "done"
  /\ j.status = "success"
  /\ j.failed = Len(j.products) - Cardinality(Embeddable(j))

IsPrefix(xs, ys) == Len(xs) <= Len(ys) /\ SubSeq(ys, 1, Len(xs)) = xs

\* C17: generate_embeddings started on an index that holds some of the
\* products passes over them and leaves their vectors and positions as they
\* were; after a complete run, also one that follows interrupted runs, every
\* product with an image is stored exactly once; a run over a fully embedded
\* list of products changes nothing.
C17_JobIsResumableAndIdempotent ==
  job.kind = "generate_embeddings" =>
    /\ IsPrefix(job.start.product_ids, svc.product_ids)
    /\ IsPrefix(job.start.index.xb, svc.index.xb)
    /\ \A pid \in DOMAIN job.start.id_to_idx :
          /\ pid \in DOMAIN svc.id_to_idx
          /\ svc.id_to_idx[pid] = job.start.id_to_idx[pid]
    /\ CompleteRun(job) =>
          /\ \A pid \in Embeddable(job) : Count(svc.product_ids, pid) = 1
          /\ ntotal(svc.index) = Cardinality(Embeddable(job))
          /\ \A pid \in Embeddable(job) :
                Count(svc.index.xb, EmbeddingOf(pid)) = 1
    /\ (job.pc = "done" /\ Embeddable(job) \subseteq DOMAIN job.start.id_to_idx) =>
          SameIndexState(svc, job.start)

\* C18: in an embedding job a failure to encode a product is caught and
\* counted as failed and the job goes on with the next product: every product
\* gone through is counted once, as successful, failed or passed over, and
\* the job ends, with success, after the last product with
\* successful + failed + skipped = the number of products.
C18_EncodeFailureIsCountedAndJobGoesOn ==
  job.kind # "none" =>
    /\ (last.op = "encode_product" /\ last.exc # "none") =>
          (Running(job) /\ job.failed >= 1)
    /\ job.successful + job.failed + job.skipped = job.i - 1
    /\ job.pc = "done" =>
          /\ job.status = "success"
          /\ job.i = Len(job.products) + 1
          /\ job.successful + job.failed + job.skipped = Len(job.products)

\* generate_embeddings with batch_size 2 on an empty index: the encoding of
\* the first product fails, the second has no image, the two of the next
\* batch are embedded
C18_Witness ==
  /\ job.kind = "generate_embeddings"
  /\ job.pc = "done"
  /\ job.batch_size = 2
  /\ job.start.product_ids = <<>>
  /\ svc.product_ids = <<"C", "D">>
  /\ job.failed = 2
  /\ job.successful = 2

C20_SearchSeesIndexBeforeOrAfter ==
  req.reader.pc = "done" =>
    \E s \in req.stable :
       [exc |-> req.reader.exc, ret |-> req.reader.ret]
         \in {[exc |-> o.exc, ret |-> o.ret]
              : o \in search(s, req.reader.query_embedding, req.reader.asked)}

\* what the index holds: the vectors, product_ids and id_to_idx
Contents(s) ==
  [vectors |-> s.index.xb, product_ids |-> s.product_ids, id_to_idx |-> s.id_to_idx]

\* C29: a rebuild_index(ids, vectors) that fails (a row of the wrong length,
\* ids and rows of different numbers, service not initialized) raises and
\* leaves the vectors, product_ids and id_to_idx held before the call as they
\* were; one that succeeds leaves exactly the given ids in the given order
\* with their rows.
C29_RebuildFailureKeepsContents ==
  \A c \in RebuildInputs :
     LET o == rebuild_index(svc, c[1], c[2])
     IN /\ o.exc # "none" => Contents(o.svc) = Contents(svc)
        /\ o.exc = "none" =>
             /\ o.svc.product_ids = c[1]
             /\ o.svc.index.xb = c[2]

\* C30, in a state: a service that is not ready answers add_embedding,
\* add_embeddings_batch and search with the not-initialized error and keeps
\* its fields; a finished initialize() leaves it ready, holding what the two
\* files hold or an empty index of dimension 896.
NotReadyRaisesAndInitializeMakesReady ==
  /\ ~svc.ready =>
       /\ \A pid \in ProductIds, v \in Vectors :
             add_embedding(svc, pid, v) = Raises(svc, "RuntimeError", "not_initialized")
       /\ \A c \in BatchInputs :
             add_embeddings_batch(svc, c[1], c[2])
               = Raises(svc, "RuntimeError", "not_initialized")
       /\ \A q \in Queries, k \in TopKs :
             search(svc, q, k) = {Raises(svc, "RuntimeError", "not_initialized")}
  /\ last.op = "initialize" =>
       /\ last.exc = "none"
       /\ svc.ready
       /\ svc.dimension = dimension
       /\ \/ /\ svc.index = ReadIndex(disk.index_file)
             /\ svc.product_ids = disk.mapping_file.product_ids
             /\ svc.id_to_idx = disk.mapping_file.id_to_idx
          \/ /\ svc.index = IndexFlatL2(dimension)
             /\ svc.product_ids = <<>>
             /\ svc.id_to_idx = EmptyMap

\* C30, from a state to the next: a ready service stays ready in every call
\* made on it (a call of __init__ makes another service)
StaysReady == (svc.ready /\ last'.op # "__init__") => svc'.ready

\* C30: until initialize() has completed, add_embedding, add_embeddings_batch
\* and search raise the not-initialized error and leave index, product_ids
\* and id_to_idx unchanged; after initialize() the service is ready with the
\* loaded state or an empty index of dimension 896, and stays ready across
\* every later operation.
C30_ReadyOnlyAfterInitializeAndForGood ==
  [](NotReadyRaisesAndInitializeMakesReady) /\ [][StaysReady]_vars

\* a new process found the two saved files and was asked to add before it
\* called initialize()
C30_Witness ==
  /\ last.op = "add_embedding"
  /\ last.exc = "RuntimeError"
  /\ ~svc.ready
  /\ disk.index_file.exists
  /\ disk.mapping_file.exists
  /\ Len(disk.mapping_file.product_ids) >= 1
  /\ svc.product_ids = <<>>

\* C26: when two add_embedding calls have run at once, for one product id or
\* for two, and both have returned, the index is as after running them one
\* after the other: no id is stored twice, there are as many vectors as ids,
\* and the place recorded for an id holds a vector that was added with it.
C26_ConcurrentAddsAsOneAfterTheOther ==
  (req.writer.pc = "idle" /\ req.second.pc = "idle" /\ svc.ready) =>
    /\ ntotal(svc.index) = Len(svc.product_ids)
    /\ \A pid \in DOMAIN svc.id_to_idx :
          /\ Count(svc.product_ids, pid) = 1
          /\ svc.id_to_idx[pid] < ntotal(svc.index)
          /\ <<pid, Reconstruct(svc.index, svc.id_to_idx[pid])>> \in req.given

\* the array a search endpoint computes for a request (flask_app.py lines
\* 97, 159, 227)
Encoded(request) ==
  IF request.endpoint = "search_by_image" THEN encode_image(request.image, FALSE, "")
  ELSE IF request.endpoint = "search_by_text" THEN encode_text(request.query)
  ELSE encode_multimodal(request.image, request.query)

\* C25: every array encode_image, encode_text and encode_multimodal return
\* for a request has L2 norm 1 when it is not all zero, and is the all-zero
\* array, not divided by anything, when its norm is zero; and it is the one
\* array the encoder gives for the inputs of the request.
C25_FusedVectorIsUnitOrZero ==
  web.embedding # NoArr =>
    /\ web.embedding.sq > 0
    /\ IF AllZero(web.embedding)
       THEN web.embedding = concatenate(zeros(512), zeros(384))
       ELSE NormSquared(web.embedding).num = NormSquared(web.embedding).den
    /\ web.embedding = Encoded(web.request)

\* an image and a text went through encode_multimodal: the concatenated
\* array had norm sqrt(190)/10 and was divided by it
C25_Witness ==
  /\ web.request.endpoint = "search_multimodal"
  /\ web.request.image = "a.jpg"
  /\ web.request.query = "red"
  /\ web.embedding = Arr(896, <<9, 3, 10, 0>>, 190)
  /\ web.response.status = 200

\* the fusion rule for an image and a text, either of which may be absent:
\* [image | zeros], [clip-text | text], [average of image and clip-text |
\* text], a blank text giving zero blocks; before the normalization
FusionRule(image, text) ==
  LET clip_text == IF text \in Blank THEN zeros(512) ELSE ClipTextFeatures(text)
      sbert == IF text \in Blank THEN zeros(384) ELSE SentenceEmbedding(text)
      clip == IF image = NoImage THEN clip_text
              ELSE IF text \in Blank THEN ClipImageFeatures(image)
              ELSE Half(Plus(ClipImageFeatures(image), clip_text))
  IN concatenate(clip, sbert)

\* x follows the fusion rule: it has length 896 and the direction of the
\* array of the rule
Fused(x, image, text) ==
  /\ x.n = 896
  /\ SameArray(normalize(x), normalize(FusionRule(image, text)))

\* the arrays of the search endpoints of the server (EmbeddingService)
\* follow the fusion rule
EmbeddingServiceFollowsFusionRule ==
  web.embedding # NoArr =>
     Fused(web.embedding,
           web.request.image,
           IF web.request.endpoint = "search_by_image" THEN "" ELSE web.request.query)

\* C24: the array made of the modalities of a query has length 896 and
\* follows the fusion rule, in the search endpoints of the server
\* (EmbeddingService) and in search_similar of the application: image only
\* [image | zeros], text only [clip-text | text], both [average of image
\* and clip-text | text], a blank text contributing zero blocks.
C24_FusedVectorFollowsFusionRule ==
  /\ EmbeddingServiceFollowsFusionRule
  /\ ui.query_vector # NoArr =>
        Fused(ui.query_vector, ui.run.uploaded_file, ui.run.text_query)

\* C21: a text search of the server whose query is empty or blank, which
\* supplies neither an image nor any text, returns no ranked product: it
\* ends in an error or in an empty result.
C21_EmptyQueryReturnsNoProducts ==
  (web.request.endpoint = "search_by_text" /\ web.request.query \in Blank) =>
     web.response.results = <<>>

\* C23: when the call of the reasoning model fails (HTTP error, timeout,
\* malformed response), a search request that reached the index is answered
\* with status 200 and the whole list of scored products; the failure shows
\* only in the reasoning text.
C23_ReasoningFailureKeepsRanking ==
  (web.request.llm # "ok" /\ web.embedding # NoArr) =>
     /\ web.response.status = 200
     /\ web.response.results = scored_products(web.df, web.found)
     /\ web.response.llm_reasoning.given =>
           web.response.llm_reasoning.text = "error_generating_reasoning"

\* the reasoning model timed out on a request that found two products
C23_Witness ==
  /\ web.request.llm = "timeout"
  /\ web.request.include_reasoning
  /\ web.response.status = 200
  /\ Len(web.response.results) = 2
  /\ web.response.llm_reasoning = Reasoning("error_generating_reasoning")

\* the place of a product id in a list of ids
Place(ids, pid) == CHOOSE i \in DOMAIN ids : ids[i] = pid

\* C28: the products of a search response are in the order of the ranking of
\* the index, and each carries the distance and the rank the index gave to
\* its own product id, also when a ranked id has no row in the catalog.
C28_ProductsCarryTheirOwnDistanceAndRank ==
  LET ids == web.found.product_ids
      results == web.response.results
  IN /\ \A j \in DOMAIN results :
           /\ results[j].product_id \in Range(ids)
           /\ results[j].rank = Place(ids, results[j].product_id)
           /\ results[j].similarity_score =
                 web.found.distances[Place(ids, results[j].product_id)]
     /\ \A j, k \in DOMAIN results :
           j < k => Place(ids, results[j].product_id) < Place(ids, results[k].product_id)

\* C27: the product ids search_similar returns for a run are at most top_k
\* and at most the vectors of the index, and none of them comes twice.
C27_SearchSimilarWithinIndexAndDistinct ==
  (ui.run.searched /\ ui.run.exc = "none") =>
     /\ Len(ui.top_ids) <= Min(ui.run.top_k, ntotal(ui.assets.faiss_index))
     /\ \A i, j \in DOMAIN ui.top_ids : ui.top_ids[i] = ui.top_ids[j] => i = j

\* C22: the suggestions of a run hold no id of the history (the seeds), no id
\* twice, only ids some per-seed search returned, and at most top_k ids.
C22_SuggestionsExcludeSeedsAndAreBounded ==
  /\ \A i \in DOMAIN ui.suggestion_ids :
        /\ ui.suggestion_ids[i] \notin Range(ui.user_history)
        /\ ui.suggestion_ids[i] \in Range(ui.all_similar)
  /\ \A i, j \in DOMAIN ui.suggestion_ids :
        ui.suggestion_ids[i] = ui.suggestion_ids[j] => i = j
  /\ Len(ui.suggestion_ids) <= ui.run.top_k

\* the per-seed searches returned a seed and more other ids than top_k: the
\* seed was taken out and the rest was cut to top_k
C22_Witness ==
  /\ ui.user_history # <<>>
  /\ Range(ui.user_history) \cap Range(ui.all_similar) # {}
  /\ Cardinality(Range(ui.all_similar) \ Range(ui.user_history)) > ui.run.top_k
  /\ Len(ui.suggestion_ids) = ui.run.top_k
  /\ ui.run.top_k >= 1

====
